---- MODULE Spec2Model ----
(***************************************************************************)
(* Model of the secure content-access layer of the Next.js / React /       *)
(* Tailwind assistant MCP server: the path sanitizer and boundary checker  *)
(* (utils/security), the tool handlers of index.ts, the time-bounded       *)
(* content cache behind fileService.readFullDocsFile, and the helpers      *)
(* searchInContent and calculateRecommendations of index.ts.               *)
(*                                                                         *)
(* JavaScript strings are modelled as sequences of one-character strings.  *)
(* The path functions are those of Node's POSIX `path` module.             *)
(***************************************************************************)
EXTENDS Integers, Sequences, FiniteSets, Bags, TLC

VARIABLES
    userInput,      \* sanitizeAndValidatePath: the argument userInput (a JS value)
    maxLength,      \* sanitizeAndValidatePath: the argument maxLength
    validation,     \* sanitizeAndValidatePath: the ValidationResult returned, or NotCalled
    requestedPath,  \* isPathWithinBase: the argument requestedPath
    basePath,       \* isPathWithinBase: the argument basePath
    within,         \* isPathWithinBase: the boolean returned, or "not-called"
    last,           \* fetch handlers: the outcome of the last tool request
    now,            \* Date.now(), in milliseconds
    cache,          \* SecureFileService's cache map: path name -> set of at most one CacheEntry
    inflight,       \* the bag of handlers and readFullDocsFile calls suspended at an await
    done,           \* what readFullDocsFile resolved with in the last step, NoAnswer if nothing
    hist,           \* the answers given to fetch-by-identifier requests, oldest first
    search,         \* searchInContent: its arguments and, once called, what it returned
    reco            \* calculateRecommendations: its arguments and, once called, what it returned

vars == <<userInput, maxLength, validation, requestedPath, basePath, within,
          last, now, cache, inflight, done, hist, search, reco>>

sanVars == <<userInput, maxLength, validation>>
baseVars == <<requestedPath, basePath, within>>
fetchVars == <<last>>
serverVars == <<now, cache, inflight, done, hist>>
pureVars == <<search, reco>>

(***************************************************************************)
(* Bounds of the model.                                                    *)
(***************************************************************************)
MaxLen == 4          \* longest enumerated identifier, in characters
MaxPathLen == 3      \* longest enumerated path given to isPathWithinBase
MaxTicks == 2        \* clock advances in one behaviour
MaxInflight == 2     \* handlers and calls suspended at an await at the same time
MaxCalls == 3        \* fetch-by-identifier requests in one behaviour

(***************************************************************************)
(* Characters and strings.                                                 *)
(***************************************************************************)
NUL == "NUL"         \* stands for the character U+0000
SLASH == "/"
BACKSLASH == "\\"
DOT == "."

\* the characters the enumerated identifiers are made of
Alphabet == {"a", "-", DOT, SLASH, BACKSLASH, NUL, "$"}

Lower == {"a","b","c","d","e","f","g","h","i","j","k","l","m",
          "n","o","p","q","r","s","t","u","v","w","x","y","z"}
Upper == {"A","B","C","D","E","F","G","H","I","J","K","L","M",
          "N","O","P","Q","R","S","T","U","V","W","X","Y","Z"}
Digit == {"0","1","2","3","4","5","6","7","8","9"}

\* the character class [a-zA-Z0-9\-_.] of allowedPattern
AllowedChars == Lower \cup Upper \cup Digit \cup {"-", "_", DOT}

\* String.prototype.repeat for a single character
Rep(c, n) == [i \in 1..n |-> c]

StrsUpTo(n) == UNION {[1..k -> Alphabet] : k \in 0..n}

\* String.prototype.includes for a needle of one or two characters
IncludesChar(s, c) == \E i \in 1..Len(s) : s[i] = c
IncludesDotDot(s) == \E i \in 1..(Len(s) - 1) : s[i] = DOT /\ s[i + 1] = DOT

\* String.prototype.startsWith
StartsWith(s, p) == Len(p) <= Len(s) /\ SubSeq(s, 1, Len(p)) = p

\* the segments of s between separators (String.prototype.split on "/")
Split(s) ==
    LET P == {i \in 1..Len(s) : s[i] = SLASH}
        \* position of the k-th separator; 0 before the first, Len(s)+1 after the last
        At(k) == IF k = 0 THEN 0
                 ELSE IF k > Cardinality(P) THEN Len(s) + 1
                 ELSE CHOOSE i \in P : Cardinality({j \in P : j < i}) = k - 1
    IN  [k \in 1..(Cardinality(P) + 1) |-> SubSeq(s, At(k - 1) + 1, At(k) - 1)]

RECURSIVE JoinSegs(_)
JoinSegs(segs) ==
    IF Len(segs) = 0 THEN <<>>
    ELSE IF Len(segs) = 1 THEN segs[1]
    ELSE segs[1] \o <<SLASH>> \o JoinSegs(Tail(segs))

(***************************************************************************)
(* Node path (POSIX): normalizeString, normalize, join, resolve.           *)
(***************************************************************************)
DotDotSeg == <<DOT, DOT>>
DotSeg == <<DOT>>

RECURSIVE NormSegs(_, _, _, _)
\* normalizeString's loop over the segments segs[i..], res being the segments kept
NormSegs(segs, i, res, allowAboveRoot) ==
    IF i > Len(segs) THEN res
    ELSE LET seg == segs[i] IN
         IF seg = <<>> \/ seg = DotSeg
         THEN NormSegs(segs, i + 1, res, allowAboveRoot)
         ELSE IF seg = DotDotSeg
         THEN IF Len(res) > 0 /\ res[Len(res)] # DotDotSeg
              THEN NormSegs(segs, i + 1, SubSeq(res, 1, Len(res) - 1), allowAboveRoot)
              ELSE IF allowAboveRoot
              THEN NormSegs(segs, i + 1, Append(res, DotDotSeg), allowAboveRoot)
              ELSE NormSegs(segs, i + 1, res, allowAboveRoot)
         ELSE NormSegs(segs, i + 1, Append(res, seg), allowAboveRoot)

normalizeString(p, allowAboveRoot) ==
    JoinSegs(NormSegs(Split(p), 1, <<>>, allowAboveRoot))

\* path.normalize
normalize(p) ==
    IF Len(p) = 0 THEN DotSeg
    ELSE LET isAbsolute == p[1] = SLASH
             trailingSeparator == p[Len(p)] = SLASH
             n == normalizeString(p, ~isAbsolute)
         IN  IF Len(n) = 0
             THEN IF isAbsolute THEN <<SLASH>>
                  ELSE IF trailingSeparator THEN <<DOT, SLASH>> ELSE DotSeg
             ELSE LET t == IF trailingSeparator THEN n \o <<SLASH>> ELSE n
                  IN  IF isAbsolute THEN <<SLASH>> \o t ELSE t

RECURSIVE Joined(_)
\* path.join's loop: the non-empty arguments, a separator between them
Joined(parts) ==
    IF Len(parts) = 0 THEN <<>>
    ELSE LET rest == Joined(Tail(parts)) IN
         IF Len(parts[1]) = 0 THEN rest
         ELSE IF Len(rest) = 0 THEN parts[1]
         ELSE parts[1] \o <<SLASH>> \o rest

\* path.join
join(parts) ==
    LET joined == Joined(parts) IN
    IF Len(joined) = 0 THEN DotSeg ELSE normalize(joined)

\* process.cwd()
cwd == <<SLASH, "w">>

\* path.resolve of one path
resolve(p) ==
    LET full == IF Len(p) > 0 /\ p[1] = SLASH THEN p
                ELSE IF Len(p) = 0 THEN cwd ELSE cwd \o <<SLASH>> \o p
        n == normalizeString(full, FALSE)
    IN  <<SLASH>> \o n

(***************************************************************************)
(* utils/security: sanitizeAndValidatePath.                                *)
(***************************************************************************)
\* JS values passed as userInput
Str(s) == [type |-> "string", str |-> s]
Undefined == [type |-> "undefined", str |-> <<>>]
NumberValue == [type |-> "number", str |-> <<>>]

ErrEmpty == "Input must be a non-empty string"
ErrTooLong == "Input exceeds maximum length of ${maxLength} characters"
ErrTraversal == "Invalid characters detected in path"
ErrDisallowed == "Path contains invalid characters. Only alphanumeric, hyphens, underscores, and dots are allowed"

\* a ValidationResult; the optional fields are sets of at most one element
Invalid(e) == [isValid |-> FALSE, sanitizedValue |-> {}, error |-> {e}]
Valid(v) == [isValid |-> TRUE, sanitizedValue |-> {v}, error |-> {}]

RECURSIVE StripLeadingDotDot(_)
\* .replace(/^(\.\.[\\/\\])+/, '')
StripLeadingDotDot(s) ==
    IF Len(s) >= 3 /\ s[1] = DOT /\ s[2] = DOT /\ s[3] \in {SLASH, BACKSLASH}
    THEN StripLeadingDotDot(SubSeq(s, 4, Len(s)))
    ELSE s

\* allowedPattern with the dot left out of the character class
allowedPattern_NoDot(s) ==
    Len(s) >= 1 /\ \A i \in 1..Len(s) : s[i] \in AllowedChars \ {DOT}

\* allowedPattern.test
allowedPattern(s) == Len(s) >= 1 /\ \A i \in 1..Len(s) : s[i] \in AllowedChars

\* sanitizeAndValidatePath with the length measured after normalization
sanitizeAndValidatePath_LengthAfter(input, maxLen) ==
    IF input.type # "string" \/ Len(input.str) = 0 THEN Invalid(ErrEmpty)
    ELSE LET normalized == StripLeadingDotDot(normalize(input.str)) IN
         IF Len(normalized) > maxLen THEN Invalid(ErrTooLong)
         ELSE IF \/ IncludesDotDot(normalized)
                 \/ IncludesChar(normalized, SLASH)
                 \/ IncludesChar(normalized, BACKSLASH)
                 \/ IncludesChar(normalized, NUL)
         THEN Invalid(ErrTraversal)
         ELSE IF ~allowedPattern(normalized) THEN Invalid(ErrDisallowed)
         ELSE Valid(normalized)

sanitizeAndValidatePath(input, maxLen) ==
    IF input.type # "string" \/ Len(input.str) = 0 THEN Invalid(ErrEmpty)
    ELSE IF Len(input.str) > maxLen THEN Invalid(ErrTooLong)
    ELSE LET normalized == StripLeadingDotDot(normalize(input.str)) IN
         IF \/ IncludesDotDot(normalized)
            \/ IncludesChar(normalized, SLASH)
            \/ IncludesChar(normalized, BACKSLASH)
            \/ IncludesChar(normalized, NUL)
         THEN Invalid(ErrTraversal)
         ELSE IF ~allowedPattern(normalized) THEN Invalid(ErrDisallowed)
         ELSE Valid(normalized)

(***************************************************************************)
(* SpecSan: sanitizeAndValidatePath applied to every enumerated input.     *)
(***************************************************************************)
IdMaxLength == 50        \* the maxLength the validators pass
DefaultMaxLength == 100  \* the default of the parameter maxLength

\* long inputs around the two length limits
LongStrs == {Rep("a", IdMaxLength), Rep("a", IdMaxLength + 1),
             <<DOT, DOT, SLASH>> \o Rep("a", IdMaxLength - 2),
             Rep("a", DefaultMaxLength), Rep("a", DefaultMaxLength + 1)}

SanInputs == {Str(s) : s \in StrsUpTo(MaxLen) \cup LongStrs} \cup {Undefined, NumberValue}

NotCalled == [isValid |-> FALSE, sanitizedValue |-> {}, error |-> {}]

\* the maxLength values the function is called with
MaxLengths == {IdMaxLength, DefaultMaxLength}

IdleSan == userInput = Undefined /\ maxLength = 0 /\ validation = NotCalled
IdleBase == requestedPath = <<>> /\ basePath = <<>> /\ within = "not-called"

IdleFetch == last = [tool |-> "none", id |-> Undefined, category |-> Undefined,
                     code |-> "none", msg |-> "", names |-> <<>>, detail |-> "",
                     reads |-> {}, calls |-> {}, size |-> 0, fs |-> "none"]
NoAnswer == [tool |-> "none", path |-> <<>>, code |-> "none", content |-> "", read |-> FALSE,
             reply |-> "none"]
IdleServer ==
    /\ now = 0 /\ cache = <<>> /\ inflight = EmptyBag
    /\ done = NoAnswer /\ hist = <<>>

\* searchInContent and calculateRecommendations not called
IdleSearch == search = [content |-> <<>>, query |-> <<>>,
                        limit |-> [type |-> "number", num |-> 0, den |-> 1], called |-> FALSE,
                        results |-> <<>>, found |-> <<>>, i |-> 0]
IdleReco == reco = [data |-> "none", criteria |-> "none", called |-> FALSE, result |-> <<>>]
IdlePure == IdleSearch /\ IdleReco

InitSan ==
    /\ IdlePure
    /\ userInput \in SanInputs
    /\ maxLength \in MaxLengths
    /\ validation = NotCalled
    /\ IdleBase /\ IdleFetch /\ IdleServer

\* one call of sanitizeAndValidatePath(userInput, maxLength)
CallSanitize ==
    /\ validation = NotCalled
    /\ validation' = sanitizeAndValidatePath(userInput, maxLength)
    /\ UNCHANGED <<userInput, maxLength, baseVars, fetchVars, serverVars, pureVars>>

NextSan == CallSanitize

SpecSan == InitSan /\ [][NextSan]_vars

(***************************************************************************)
(* utils/security: isPathWithinBase.                                       *)
(***************************************************************************)
sep == <<SLASH>>     \* path.sep

\* isPathWithinBase comparing against the base without the trailing separator
isPathWithinBase_NoSep(requested, base) ==
    StartsWith(resolve(requested), resolve(base))

isPathWithinBase(requested, base) ==
    LET resolvedBase == resolve(base)
        resolvedRequested == resolve(requested)
    IN  \/ StartsWith(resolvedRequested, resolvedBase \o sep)
        \/ resolvedRequested = resolvedBase

(***************************************************************************)
(* SpecBase: isPathWithinBase applied to enumerated pairs of paths.        *)
(***************************************************************************)
PathAlphabet == {SLASH, DOT, "b", "-"}
PathStrs == UNION {[1..k -> PathAlphabet] : k \in 0..MaxPathLen}

\* the two paths of the documented examples, for a base b
ChildOf(b) == b \o sep \o <<"x">>
SiblingOf(b) == b \o <<"-", "s", "i", "b", "l", "i", "n", "g", SLASH, "x">>

BaseInputs == PathStrs
RequestedInputs(b) == PathStrs \cup {ChildOf(b), SiblingOf(b)}

InitBase ==
    /\ IdlePure
    /\ basePath \in BaseInputs
    /\ requestedPath \in RequestedInputs(basePath)
    /\ within = "not-called"
    /\ IdleSan /\ IdleFetch /\ IdleServer

\* one call of isPathWithinBase(requestedPath, basePath)
CallIsPathWithinBase ==
    /\ within = "not-called"
    /\ within' = IF isPathWithinBase(requestedPath, basePath) THEN "true" ELSE "false"
    /\ UNCHANGED <<requestedPath, basePath, sanVars, fetchVars, serverVars, pureVars>>

NextBase == CallIsPathWithinBase

SpecBase == InitBase /\ [][NextBase]_vars

(***************************************************************************)
(* utils/security: validateToolInput and the per-tool validators.          *)
(*                                                                         *)
(* A validator returns the McpError it throws, or NoThrow.                 *)
(***************************************************************************)
NoThrow == [thrown |-> FALSE, code |-> "none", msg |-> "", detail |-> ""]
Throw(code, msg, detail) == [thrown |-> TRUE, code |-> code, msg |-> msg, detail |-> detail]

\* the single element of a set of one string, "" for the empty set
TheError(e) == IF e = {} THEN "" ELSE CHOOSE x \in e : TRUE

\* `!v || typeof v !== 'string'`
MissingOrNotString(v) == v.type # "string" \/ Len(v.str) = 0

LAYOUTS == <<"l", "a", "y", "o", "u", "t", "s">>
PAGES == <<"p", "a", "g", "e", "s">>
FEATURES == <<"f", "e", "a", "t", "u", "r", "e", "s">>
allowedCategories == {LAYOUTS, PAGES, FEATURES}

validateCatalystComponentArgs(args) ==
    IF MissingOrNotString(args.component_name)
    THEN Throw("InvalidParams", "Missing or invalid 'component_name' argument", "")
    ELSE LET v == sanitizeAndValidatePath(args.component_name, IdMaxLength) IN
         IF ~v.isValid
         THEN Throw("InvalidParams", "Invalid component_name: ${validation.error}", TheError(v.error))
         ELSE NoThrow

validatePatternArgs(args) ==
    IF MissingOrNotString(args.category)
    THEN Throw("InvalidParams", "Missing or invalid 'category' argument", "")
    ELSE IF MissingOrNotString(args.pattern_name)
    THEN Throw("InvalidParams", "Missing or invalid 'pattern_name' argument", "")
    ELSE IF args.category.str \notin allowedCategories
    THEN Throw("InvalidParams", "Invalid category. Must be one of: layouts, pages, features", "")
    ELSE LET v == sanitizeAndValidatePath(args.pattern_name, IdMaxLength) IN
         IF ~v.isValid
         THEN Throw("InvalidParams", "Invalid pattern_name: ${validation.error}", TheError(v.error))
         ELSE NoThrow

\* a JavaScript number, kept as the fraction num/den, and the other values a
\* limit argument can be
Num(num, den) == [type |-> "number", num |-> num, den |-> den]
NoLimit == [type |-> "undefined", num |-> 0, den |-> 1]
StringLimit == [type |-> "string", num |-> 5, den |-> 1]

\* characters outside the printable ASCII range
TAB == "\t"
LF == "\n"
US == "US"           \* stands for the character U+001F
DEL == "DEL"         \* stands for the character U+007F
NEL == "NEL"         \* stands for the character U+0085

\* the characters of the class [\x00-\x1F\x7F]
ControlClass == {NUL, TAB, LF, US, DEL}

validateSearchDocsArgs(args) ==
    IF MissingOrNotString(args.query)
    THEN Throw("InvalidParams", "Missing or invalid 'query' argument", "")
    ELSE IF Len(args.query.str) < 2
    THEN Throw("InvalidParams", "Search query must be at least 2 characters", "")
    ELSE IF Len(args.query.str) > 100
    THEN Throw("InvalidParams", "Search query exceeds maximum length of 100 characters", "")
    ELSE IF \E k \in 1..Len(args.query.str) : args.query.str[k] \in ControlClass
    THEN Throw("InvalidParams", "Search query contains invalid characters", "")
    ELSE IF args.limit.type # "undefined"
            /\ (\/ args.limit.type # "number"
                \/ args.limit.num < 1 * args.limit.den
                \/ args.limit.num > 20 * args.limit.den)
    THEN Throw("InvalidParams", "Limit must be a number between 1 and 20", "")
    ELSE NoThrow

validateToolInput(toolName, args) ==
    IF ~args.isObject
    THEN Throw("InvalidParams", "Invalid arguments for tool ${toolName}", "")
    ELSE IF toolName \in {"search_nextjs_docs", "search_tailwind_docs"}
    THEN validateSearchDocsArgs(args)
    ELSE IF toolName = "get_catalyst_component" THEN validateCatalystComponentArgs(args)
    ELSE IF toolName = "get_pattern" THEN validatePatternArgs(args)
    ELSE NoThrow

\* the security functions a validateToolInput call goes through
SecurityCalls(toolName, args) ==
    {"validateToolInput"}
    \cup (IF args.isObject /\ toolName = "get_catalyst_component"
             /\ ~MissingOrNotString(args.component_name)
          THEN {"sanitizeAndValidatePath"} ELSE {})
    \cup (IF args.isObject /\ toolName = "get_pattern"
             /\ ~MissingOrNotString(args.category)
             /\ ~MissingOrNotString(args.pattern_name)
             /\ args.category.str \in allowedCategories
          THEN {"sanitizeAndValidatePath"} ELSE {})

(***************************************************************************)
(* index.ts: CONFIG and the fetch-by-identifier tool handlers.             *)
(***************************************************************************)
catalystComponentsPath == join(<<cwd, <<"c", "o", "n", "t", "e", "n", "t">>, <<"c", "o", "m", "p", "o", "n", "e", "n", "t", "s">>, <<"c", "a", "t", "a", "l", "y", "s", "t">>>>)
patternsPath == join(<<cwd, <<"c", "o", "n", "t", "e", "n", "t">>, <<"p", "a", "t", "t", "e", "r", "n", "s">>>>)
templatesPath == join(<<cwd, <<"c", "o", "n", "t", "e", "n", "t">>, <<"t", "e", "m", "p", "l", "a", "t", "e", "s">>, <<"s", "t", "a", "r", "t", "e", "r", "-", "k", "i", "t", "s", ".", "j", "s", "o", "n">>>>)
libraryDocsPath == join(<<cwd, <<"c", "o", "n", "t", "e", "n", "t">>, <<"d", "o", "c", "s">>, <<"l", "i", "b", "r", "a", "r", "i", "e", "s">>>>)

maxFileSize == 1 * 1024 * 1024
largeFileSize == 5 * 1024 * 1024

ExtTsx == <<".", "t", "s", "x">>
ExtMd == <<".", "m", "d">>
ExtTxt == <<".", "t", "x", "t">>

\* the arguments object of a fetch tool: the identifier and, for get_pattern, the category
FetchArgs(tool, id, category) ==
    [isObject |-> TRUE,
     component_name |-> IF tool = "get_catalyst_component" THEN id ELSE Undefined,
     pattern_name |-> IF tool = "get_pattern" THEN id ELSE Undefined,
     category |-> IF tool = "get_pattern" THEN category ELSE Undefined,
     library_name |-> IF tool = "get_library_docs" THEN id ELSE Undefined,
     id |-> IF tool = "get_starter_kit" THEN id ELSE Undefined]

\* z.string().min(1).max(50)
zIdentifier(v) == v.type = "string" /\ Len(v.str) >= 1 /\ Len(v.str) <= 50

\* the inputSchema each tool is registered with
inputSchema(tool, id, category) ==
    /\ zIdentifier(id)
    /\ tool = "get_pattern" => (category.type = "string" /\ category.str \in allowedCategories)

\* the path each handler assembles from its arguments
AssembledPath(tool, id, category) ==
    IF tool = "get_catalyst_component" THEN join(<<catalystComponentsPath, id.str \o ExtTsx>>)
    ELSE IF tool = "get_pattern" THEN join(<<patternsPath, category.str, id.str \o ExtMd>>)
    ELSE IF tool = "get_library_docs" THEN join(<<libraryDocsPath, id.str \o ExtTxt>>)
    ELSE templatesPath

\* the base directory each operation serves from
BaseOf(tool, category) ==
    IF tool = "get_catalyst_component" THEN catalystComponentsPath
    ELSE IF tool = "get_pattern" THEN join(<<patternsPath, category.str>>)
    ELSE IF tool = "get_library_docs" THEN libraryDocsPath
    ELSE join(<<cwd, <<"c", "o", "n", "t", "e", "n", "t">>, <<"t", "e", "m", "p", "l", "a", "t", "e", "s">>>>)

NotFoundMsg(tool) ==
    IF tool = "get_catalyst_component"
    THEN "Catalyst component '${args.component_name}' not found. Use list_catalyst_components to see available components."
    ELSE IF tool = "get_pattern"
    THEN "Pattern '${args.pattern_name}' not found in category '${args.category}'. Use list_patterns to see available patterns."
    ELSE IF tool = "get_library_docs"
    THEN "Library documentation for '${args.library_name}' not found. Use list_library_docs to see available libraries."
    ELSE "Starter kit '${args.id}' not found. Use list_starter_kits to see available templates."

\* the ids of the records of starter-kits.json
KitIds == {<<"a">>, <<"a", "-", "a">>}

\* what fs.readFile(path, 'utf-8') can do: resolve with the whole content of
\* a file of some size in bytes, or reject with an error code
ReadFile(code, size) == [code |-> code, size |-> size]
ReadOutcomes == {ReadFile("content", maxFileSize), ReadFile("ENOENT", 0), ReadFile("EISDIR", 0)}

\* the answer to a request; size is the size of the file whose content it
\* returns, fs is what fs.readFile did ("none" when it was not called)
Response(tool, id, category, code, msg, names, detail, reads, calls) ==
    [tool |-> tool, id |-> id, category |-> category, code |-> code, msg |-> msg,
     names |-> names, detail |-> detail, reads |-> reads, calls |-> calls, size |-> 0,
     fs |-> "none"]

\* a catch block without the ENOENT and McpError branches: every failure is
\* wrapped as an InternalError
FetchHandler_WrapsEverything(tool, id, category, r) ==
    LET args == FetchArgs(tool, id, category)
        thrown == validateToolInput(tool, args)
        calls == SecurityCalls(tool, args)
        p == AssembledPath(tool, id, category)
    IN  IF thrown.thrown
        THEN Response(tool, id, category, "InternalError",
                      "ErrorHandler.formatSafeErrorMessage", <<>>, "", {}, calls)
        ELSE IF r.code = "content"
        THEN [Response(tool, id, category, "ok", "content", <<>>, "", {p}, calls)
                  EXCEPT !.size = r.size, !.fs = r.code]
        ELSE [Response(tool, id, category, "InternalError",
                       "ErrorHandler.formatSafeErrorMessage", <<>>, "", {p}, calls)
                  EXCEPT !.fs = r.code]

\* the try/catch of get_catalyst_component, get_pattern and get_library_docs;
\* r is what fs.readFile does with the assembled path
FetchHandler(tool, id, category, r) ==
    LET args == FetchArgs(tool, id, category)
        thrown == validateToolInput(tool, args)
        calls == SecurityCalls(tool, args)
        p == AssembledPath(tool, id, category)
    IN  IF thrown.thrown
        THEN Response(tool, id, category, thrown.code, thrown.msg, <<>>, thrown.detail, {}, calls)
        ELSE IF r.code = "content"
        THEN [Response(tool, id, category, "ok", "content", <<>>, "", {p}, calls)
                  EXCEPT !.size = r.size, !.fs = r.code]
        ELSE IF r.code = "ENOENT"
        THEN [Response(tool, id, category, "InvalidRequest", NotFoundMsg(tool), id.str, "",
                       {p}, calls)
                  EXCEPT !.fs = r.code]
        ELSE [Response(tool, id, category, "InternalError",
                       "ErrorHandler.formatSafeErrorMessage", <<>>, "", {p}, calls)
                  EXCEPT !.fs = r.code]

\* the try/catch of get_starter_kit; r is what fs.readFile does with templatesPath
StarterKitHandler(id, r) ==
    LET tool == "get_starter_kit"
        args == FetchArgs(tool, id, Undefined)
        thrown == validateToolInput(tool, args)
        calls == SecurityCalls(tool, args)
    IN  IF thrown.thrown
        THEN Response(tool, id, Undefined, thrown.code, thrown.msg, <<>>, thrown.detail, {}, calls)
        ELSE IF r.code = "content"
        THEN IF id.str \in KitIds
             THEN [Response(tool, id, Undefined, "ok", "content", <<>>, "", {templatesPath}, calls)
                       EXCEPT !.size = r.size, !.fs = r.code]
             ELSE [Response(tool, id, Undefined, "InvalidRequest", NotFoundMsg(tool), id.str, "",
                            {templatesPath}, calls)
                       EXCEPT !.fs = r.code]
        ELSE [Response(tool, id, Undefined, "InternalError",
                       "ErrorHandler.formatSafeErrorMessage", <<>>, "", {templatesPath}, calls)
                  EXCEPT !.fs = r.code]

\* the dispatcher's answer to arguments that do not satisfy the tool's inputSchema
SchemaRejection(tool, id, category) ==
    Response(tool, id, category, "InvalidParams", "inputSchema", <<>>, "", {}, {})

(***************************************************************************)
(* SpecFetch: the fetch-by-identifier tools.  A handler runs to its        *)
(* `await fs.readFile(...)` in the turn that starts the request and        *)
(* answers in a later turn, when the read has returned; other requests     *)
(* start in between.                                                       *)
(***************************************************************************)
FetchIds == {Str(s) : s \in StrsUpTo(MaxLen) \cup {Rep("a", IdMaxLength), Rep("a", IdMaxLength + 1)}}
               \cup {Undefined}
Categories == {Str(c) : c \in allowedCategories} \cup {Str(DotDotSeg)}

\* the identifiers of requests that are enumerated overlapping each other;
\* a request with another identifier is enumerated running alone
OverlapIds == {Str(<<"a">>), Str(<<SLASH>>)}

InitFetch == IdleSan /\ IdleBase /\ IdleFetch /\ IdleServer /\ IdlePure

\* a handler suspended at `await fs.readFile(path, 'utf-8')`
Awaiting(tool, id, category) ==
    [tool |-> tool, id |-> id, category |-> category,
     path |-> AssembledPath(tool, id, category), stage |-> "readFile"]

\* the read is not reached
NotRead == ReadFile("none", 0)

\* the identifiers a request can start with in this state
\* a request may start next to the others: fewer than MaxInflight handlers
\* are suspended and no request of the behaviour has an identifier outside
\* OverlapIds
MayOverlap ==
    /\ BagCardinality(inflight) < MaxInflight
    /\ \A s \in BagToSet(inflight) : s.id \in OverlapIds \cup {Undefined}
    /\ last.id \in OverlapIds \cup {Undefined}

StartIds ==
    IF inflight = EmptyBag /\ last.tool = "none" THEN FetchIds
    ELSE IF MayOverlap THEN OverlapIds
    ELSE {}

\* a tool call up to the handler's first await: arguments the inputSchema
\* rejects and arguments validateToolInput throws on are answered in this
\* turn, otherwise the handler hands its path to fs.readFile and suspends
Dispatch(tool, id, category) ==
    /\ IF ~inputSchema(tool, id, category)
       THEN last' = SchemaRejection(tool, id, category) /\ UNCHANGED inflight
       ELSE IF validateToolInput(tool, FetchArgs(tool, id, category)).thrown
       THEN last' = FetchHandler(tool, id, category, NotRead) /\ UNCHANGED inflight
       ELSE /\ inflight' = inflight (+) SetToBag({Awaiting(tool, id, category)})
            /\ UNCHANGED last
    /\ UNCHANGED <<now, cache, done, hist, sanVars, baseVars, pureVars>>

GetCatalystComponent ==
    \E id \in StartIds : Dispatch("get_catalyst_component", id, Undefined)

GetPattern ==
    \E id \in StartIds, c \in Categories : Dispatch("get_pattern", id, c)

GetLibraryDocs ==
    \E id \in StartIds : Dispatch("get_library_docs", id, Undefined)

GetStarterKit ==
    \E id \in StartIds : Dispatch("get_starter_kit", id, Undefined)

\* the read of a suspended handler returns and the handler answers
FetchReadCompletes ==
    \E s \in BagToSet(inflight), r \in ReadOutcomes :
        /\ s.stage = "readFile"
        /\ last' = IF s.tool = "get_starter_kit" THEN StarterKitHandler(s.id, r)
                   ELSE FetchHandler(s.tool, s.id, s.category, r)
        /\ inflight' = inflight (-) SetToBag({s})
        /\ UNCHANGED <<now, cache, done, hist, sanVars, baseVars, pureVars>>

\* the tools that take no argument and make one read:
\* list_catalyst_components and list_library_docs read a directory,
\* get_color_design_guidance and list_starter_kits a file
ListTools == {"list_catalyst_components", "get_color_design_guidance", "list_starter_kits",
              "list_library_docs"}

colorPatternsPath ==
    join(<<patternsPath, FEATURES,
           <<"c", "o", "l", "o", "r", "-", "d", "e", "s", "i", "g", "n", "-",
             "p", "a", "t", "t", "e", "r", "n", "s", ".", "m", "d">>>>)

ListPath(tool) ==
    IF tool = "list_catalyst_components" THEN catalystComponentsPath
    ELSE IF tool = "get_color_design_guidance" THEN colorPatternsPath
    ELSE IF tool = "list_starter_kits" THEN templatesPath
    ELSE libraryDocsPath

\* what fs.readdir(path) can do: resolve with the names in the directory,
\* or reject with an error code
Readdir(code, files) == [code |-> code, size |-> 0, files |-> files]

\* the directories enumerated: an empty one, one with no file of the
\* extension looked for by list_catalyst_components and list_patterns, and
\* one with files of every extension, out of order, two of which have the
\* same name once the first ".md" is removed
DirListings ==
    {<<>>,
     << <<"a", ".", "t", "x", "t">> >>,
     << <<"b", ".", "m", "d">>, <<"a", ".", "m", "d", ".", "m", "d">>, <<"a", ".", "m", "d">>,
        <<".", "m", "d", "a", ".", "m", "d">>,
        <<"b", ".", "t", "s", "x">>, <<"a", ".", "t", "s", "x">>, <<"b", ".", "t", "x", "t">> >>}
ReaddirOutcomes == {Readdir("content", l) : l \in DirListings} \cup {Readdir("ENOENT", <<>>)}

\* String.prototype.endsWith
endsWith(s, suffix) ==
    Len(s) >= Len(suffix) /\ SubSeq(s, Len(s) - Len(suffix) + 1, Len(s)) = suffix

\* String.prototype.replace with a string pattern: the first occurrence
replace(s, pattern, by) ==
    LET at == {i \in 1..(Len(s) - Len(pattern) + 1) : SubSeq(s, i, i + Len(pattern) - 1) = pattern}
    IN  IF at = {} THEN s
        ELSE LET i == CHOOSE x \in at : \A y \in at : x <= y
             IN  SubSeq(s, 1, i - 1) \o by \o SubSeq(s, i + Len(pattern), Len(s))

\* the UTF-16 code unit of a character of the enumerated names
CodeUnit(c) ==
    CASE c = "-" -> 45 [] c = "." -> 46 [] c = "a" -> 97 [] c = "b" -> 98 [] c = "d" -> 100
      [] c = "m" -> 109 [] c = "s" -> 115 [] c = "t" -> 116 [] c = "x" -> 120

\* the order of Array.prototype.sort without a comparator: by code units,
\* a proper prefix first
SortsBefore(a, b) ==
    \E i \in 1..(Len(b)) :
        /\ i <= Len(a) + 1
        /\ \A j \in 1..(i - 1) : a[j] = b[j]
        /\ IF i > Len(a) THEN TRUE ELSE CodeUnit(a[i]) < CodeUnit(b[i])

\* `.sort()` of an array of strings: equal strings stay next to each other
sort(names) ==
    LET n == Len(names)
        rank(i) == 1 + Cardinality({j \in 1..n : \/ SortsBefore(names[j], names[i])
                                                 \/ (names[j] = names[i] /\ j < i)})
    IN  [k \in 1..n |-> names[CHOOSE i \in 1..n : rank(i) = k]]

\* `files.filter(file => file.endsWith(ext)).map(file => file.replace(ext, '')).sort()`
NamesOf(files, ext) ==
    LET kept == SelectSeq(files, LAMBDA file : endsWith(file, ext))
    IN  sort([i \in 1..Len(kept) |-> replace(kept[i], ext, <<>>)])

\* the tools of ListTools that read a directory, and the extension each keeps
DirectoryTools == {"list_catalyst_components", "list_library_docs"}
ListExt(tool) == IF tool = "list_catalyst_components" THEN ExtTsx ELSE ExtTxt

\* the try/catch of a tool of ListTools; r is what fs.readdir or fs.readFile
\* does: only get_color_design_guidance answers ENOENT with InvalidRequest.
\* names is the components or libraries the answer of a directory tool counts
ListHandler(tool, r) ==
    IF r.code = "content"
    THEN [Response(tool, Undefined, Undefined, "ok", "content", <<>>, "", {ListPath(tool)}, {})
              EXCEPT !.fs = r.code,
                     !.size = IF tool = "get_color_design_guidance" THEN r.size ELSE 0,
                     !.names = IF tool \in DirectoryTools THEN NamesOf(r.files, ListExt(tool))
                               ELSE <<>>]
    ELSE IF r.code = "ENOENT" /\ tool = "get_color_design_guidance"
    THEN [Response(tool, Undefined, Undefined, "InvalidRequest",
                   "Color design patterns documentation not found. Please ensure color-design-patterns.md exists in the features directory.",
                   <<>>, "", {ListPath(tool)}, {})
              EXCEPT !.fs = r.code]
    ELSE [Response(tool, Undefined, Undefined, "InternalError",
                   "ErrorHandler.formatSafeErrorMessage", <<>>, "", {ListPath(tool)}, {})
              EXCEPT !.fs = r.code]

\* `const categories = ['layouts', 'pages', 'features']` of list_patterns
patternCategories == <<LAYOUTS, PAGES, FEATURES>>

\* a section of the answer of list_patterns: a category and its patterns
Section(category, patterns) == [category |-> category, patterns |-> patterns]

\* the body of the loop of list_patterns for one category, r being what
\* fs.readdir does: a section is added `if (patterns.length > 0)`, and a
\* directory that cannot be read is passed over
ListCategory(listed, category, r) ==
    IF r.code # "content" THEN listed
    ELSE LET patterns == NamesOf(r.files, ExtMd)
         IN  IF Len(patterns) > 0 THEN Append(listed, Section(category, patterns)) ELSE listed

\* the answer of list_patterns: listed is the sections of its text, in order
ListPatternsResponse(listed) ==
    [Response("list_patterns", Undefined, Undefined, "ok", "content", <<>>, "",
              {join(<<patternsPath, patternCategories[i]>>) : i \in 1..Len(patternCategories)}, {})
         EXCEPT !.names = listed]

\* a handler without arguments suspended at its read; list_patterns is at
\* the readdir of category number at, having added the sections of listed
AwaitingList(tool, path, at, listed) ==
    [tool |-> tool, id |-> Undefined, category |-> Undefined, path |-> path,
     stage |-> "list", at |-> at, listed |-> listed]

\* a tool of ListTools up to its first await
ListWithoutArguments ==
    \E tool \in ListTools :
        /\ MayOverlap
        /\ inflight' = inflight (+) SetToBag({AwaitingList(tool, ListPath(tool), 1, <<>>)})
        /\ UNCHANGED <<last, now, cache, done, hist, sanVars, baseVars, pureVars>>

\* list_patterns up to the readdir of its first category
ListPatterns ==
    /\ MayOverlap
    /\ inflight' = inflight (+)
           SetToBag({AwaitingList("list_patterns", join(<<patternsPath, patternCategories[1]>>),
                                  1, <<>>)})
    /\ UNCHANGED <<last, now, cache, done, hist, sanVars, baseVars, pureVars>>

\* the read of a suspended handler without arguments returns: list_patterns
\* goes on to its next category and answers after the last one, the other
\* tools answer
ListReadCompletes ==
    \E s \in {x \in BagToSet(inflight) : x.stage = "list"} :
    \E r \in IF s.tool \in DirectoryTools \cup {"list_patterns"} THEN ReaddirOutcomes
               ELSE ReadOutcomes :
        /\ IF s.tool # "list_patterns"
           THEN /\ last' = ListHandler(s.tool, r)
                /\ inflight' = inflight (-) SetToBag({s})
           ELSE LET listed == ListCategory(s.listed, patternCategories[s.at], r)
                IN  IF s.at < Len(patternCategories)
                    THEN /\ inflight' = (inflight (-) SetToBag({s})) (+)
                                SetToBag({AwaitingList(s.tool,
                                              join(<<patternsPath, patternCategories[s.at + 1]>>),
                                              s.at + 1, listed)})
                         /\ UNCHANGED last
                    ELSE /\ last' = ListPatternsResponse(listed)
                         /\ inflight' = inflight (-) SetToBag({s})
        /\ UNCHANGED <<now, cache, done, hist, sanVars, baseVars, pureVars>>

NextFetch ==
    \/ GetCatalystComponent
    \/ GetPattern
    \/ GetLibraryDocs
    \/ GetStarterKit
    \/ FetchReadCompletes
    \/ ListWithoutArguments
    \/ ListPatterns
    \/ ListReadCompletes

SpecFetch == InitFetch /\ [][NextFetch]_vars

(***************************************************************************)
(* index.ts CONFIG, types.ts CacheEntry, and SecureFileService             *)
(* (services/fileService): the content cache behind readFullDocsFile.      *)
(***************************************************************************)
nextjsDocsPath == join(<<cwd, <<"c", "o", "n", "t", "e", "n", "t">>, <<"d", "o", "c", "s">>, <<"n", "e", "x", "t", "j", "s">>, <<"n", "e", "x", "t", "j", "s", "-", "f", "u", "l", "l", ".", "t", "x", "t">>>>)
tailwindDocsPath == join(<<cwd, <<"c", "o", "n", "t", "e", "n", "t">>, <<"d", "o", "c", "s">>, <<"t", "a", "i", "l", "w", "i", "n", "d">>, <<"t", "a", "i", "l", "w", "i", "n", "d", "-", "d", "o", "c", "s", "-", "f", "u", "l", "l", ".", "t", "x", "t">>>>)
contentBasePath == join(<<cwd, <<"c", "o", "n", "t", "e", "n", "t">>>>)
\* summaryPath of the content-summary resource
summaryPath == join(<<contentBasePath, <<"c", "o", "n", "t", "e", "n", "t", "-", "s", "u", "m", "m", "a", "r", "y", ".", "j", "s", "o", "n">>>>)
\* cacheTimeout written in seconds where the service counts milliseconds
cacheTimeout_Seconds == 5 * 60

cacheTimeout == 5 * 60 * 1000

\* the paths the handlers hand to readFullDocsFile: the keys of the cache
DocPaths == {nextjsDocsPath, tailwindDocsPath, summaryPath}

\* the clock is observed every two and a half minutes
TickMs == (5 * 60 * 1000) \div 2

CacheEntry(content, lastModified) == [content |-> content, lastModified |-> lastModified]

\* what the files on disk hold and how large they are; the files are not the
\* server's, so each stat and each read may find any of these
Contents == {"v1", "v2"}
\* what fs.stat can return to a call with the ceiling maxSize: an error code,
\* or no error and the file's size, at the ceiling or one byte above it
StatOutcomes(maxSize) == {[code |-> c, size |-> 0] : c \in {"ENOENT", "EIO"}}
                             \cup {[code |-> "", size |-> sz] : sz \in {maxSize, maxSize + 1}}
\* what fs.readFile can return: an error code or the file's content
FileReadOutcomes == {"ENOENT", "EIO"} \cup Contents

TheOne(S) == CHOOSE x \in S : TRUE

Resources == {"nextjs-docs", "tailwind-docs", "content-summary"}

\* what the handler that made the call does with its outcome: the content is
\* returned as text; a failure is thrown as an McpError by a tool, leaves the
\* callback of a documentation resource as it is, and is replaced by the
\* "Content summary not available" text by the content-summary resource
Reply(tool, code) ==
    IF code = "ok" THEN "text"
    ELSE IF tool = "content-summary" THEN "summary-not-available"
    ELSE IF tool \in Resources THEN "rejected"
    ELSE "McpError"

Answer(tool, path, code, content, read) ==
    [tool |-> tool, path |-> path, code |-> code, content |-> content, read |-> read,
     reply |-> Reply(tool, code)]

\* the freshness test of a cache get
IsFresh(entry, t) == t - entry.lastModified < cacheTimeout

\* a call suspended at an await of readFullDocsFile
Suspended(tool, path, maxSize, stage) ==
    [tool |-> tool, path |-> path, maxSize |-> maxSize, stage |-> stage]

\* the calls explored side by side: at most MaxInflight are suspended at
\* once, and a resource callback suspends only while no other call is
\* suspended (a tool may then join it)
MayStart(tool) ==
    IF tool \in Resources THEN inflight = EmptyBag
    ELSE BagCardinality(inflight) < MaxInflight

\* readFullDocsFile(path, maxSize) up to its first await: a fresh entry is
\* returned at once, otherwise the call suspends at the stat of the file
ReadFullDocsFile(tool, path, maxSize) ==
    IF cache[path] # {} /\ IsFresh(TheOne(cache[path]), now)
    THEN /\ done' = Answer(tool, path, "ok", TheOne(cache[path]).content, FALSE)
         /\ UNCHANGED <<now, cache, inflight, hist>>
    ELSE /\ MayStart(tool)
         /\ inflight' = inflight (+) SetToBag({Suspended(tool, path, maxSize, "stat")})
         /\ done' = NoAnswer
         /\ UNCHANGED <<now, cache, hist>>

\* StatReturns caching what it has when the file is oversized
StatReturns_CachesOversized(r, out) ==
    /\ done' = Answer(r.tool, r.path,
                      IF out.code = "EIO" THEN "ReadError"
                      ELSE IF out.code = "ENOENT" THEN "NotFound" ELSE "TooLarge",
                      "", FALSE)
    /\ inflight' = inflight (-) SetToBag({r})
    /\ cache' = IF out.code = "" /\ out.size > r.maxSize
                THEN [cache EXCEPT ![r.path] = {CacheEntry("", now)}]
                ELSE cache

\* the stat of a suspended call returns out: a missing file, an I/O error
\* and an oversized file end the call, otherwise it suspends at the read
StatReturns(r, out) ==
    IF out.code = "EIO"
    THEN /\ done' = Answer(r.tool, r.path, "ReadError", "", FALSE)
         /\ inflight' = inflight (-) SetToBag({r})
         /\ UNCHANGED cache
    ELSE IF out.code = "ENOENT"
    THEN /\ done' = Answer(r.tool, r.path, "NotFound", "", FALSE)
         /\ inflight' = inflight (-) SetToBag({r})
         /\ UNCHANGED cache
    ELSE IF out.size > r.maxSize
    THEN /\ done' = Answer(r.tool, r.path, "TooLarge", "", FALSE)
         /\ inflight' = inflight (-) SetToBag({r})
         /\ UNCHANGED cache
    ELSE /\ inflight' = (inflight (-) SetToBag({r})) (+) SetToBag({[r EXCEPT !.stage = "read"]})
         /\ done' = NoAnswer
         /\ UNCHANGED cache

\* the entry a completed read stores
Stored(content, t) == {CacheEntry(content, t)}

\* the read of a suspended call returns out: on success the entry is stored,
\* whole, with the current time
ReadReturns(r, out) ==
    IF out = "EIO"
    THEN /\ done' = Answer(r.tool, r.path, "ReadError", "", FALSE)
         /\ inflight' = inflight (-) SetToBag({r})
         /\ UNCHANGED cache
    ELSE IF out = "ENOENT"
    THEN /\ done' = Answer(r.tool, r.path, "NotFound", "", FALSE)
         /\ inflight' = inflight (-) SetToBag({r})
         /\ UNCHANGED cache
    ELSE /\ cache' = [cache EXCEPT ![r.path] = Stored(out, now)]
         /\ done' = Answer(r.tool, r.path, "ok", out, TRUE)
         /\ inflight' = inflight (-) SetToBag({r})

(***************************************************************************)
(* SpecCache: the full-document tools and resources, the clock, the disk.   *)
(***************************************************************************)
InitCache ==
    /\ IdlePure
    /\ now = 0
    /\ cache = [p \in DocPaths |-> {}]
    /\ inflight = EmptyBag
    /\ done = NoAnswer
    /\ hist = <<>>
    /\ IdleSan /\ IdleBase /\ IdleFetch

\* the try block of get_nextjs_full_docs up to the first await
GetNextjsFullDocs ==
    /\ ReadFullDocsFile("get_nextjs_full_docs", nextjsDocsPath, largeFileSize)
    /\ UNCHANGED <<sanVars, baseVars, fetchVars, pureVars>>

\* the try block of get_tailwind_full_docs up to the first await
GetTailwindFullDocs ==
    /\ ReadFullDocsFile("get_tailwind_full_docs", tailwindDocsPath, largeFileSize)
    /\ UNCHANGED <<sanVars, baseVars, fetchVars, pureVars>>

\* the callback of the nextjs-docs resource up to the first await
ReadNextjsDocs ==
    /\ ReadFullDocsFile("nextjs-docs", nextjsDocsPath, largeFileSize)
    /\ UNCHANGED <<sanVars, baseVars, fetchVars, pureVars>>

\* the callback of the tailwind-docs resource up to the first await
ReadTailwindDocs ==
    /\ ReadFullDocsFile("tailwind-docs", tailwindDocsPath, largeFileSize)
    /\ UNCHANGED <<sanVars, baseVars, fetchVars, pureVars>>

\* the callback of the content-summary resource up to the first await
ReadContentSummary ==
    /\ ReadFullDocsFile("content-summary", summaryPath, maxFileSize)
    /\ UNCHANGED <<sanVars, baseVars, fetchVars, pureVars>>

\* a suspended call's stat returns
StatCompletes ==
    \E r \in {x \in BagToSet(inflight) : x.stage = "stat"} : \E out \in StatOutcomes(r.maxSize) :
        /\ StatReturns(r, out)
        /\ UNCHANGED <<now, hist, sanVars, baseVars, fetchVars, pureVars>>

\* a suspended call's read returns
ReadCompletes ==
    \E r \in BagToSet(inflight), out \in FileReadOutcomes :
        /\ r.stage = "read"
        /\ ReadReturns(r, out)
        /\ UNCHANGED <<now, hist, sanVars, baseVars, fetchVars, pureVars>>

\* Abandon publishing what the abandoned read has so far
Abandon_PublishesPartial ==
    \E r \in BagToSet(inflight) :
        /\ inflight' = inflight (-) SetToBag({r})
        /\ cache' = [cache EXCEPT ![r.path] = {CacheEntry("", now)}]
        /\ done' = NoAnswer
        /\ UNCHANGED <<now, hist, sanVars, baseVars, fetchVars, pureVars>>

\* a suspended call is abandoned: it never resumes
Abandon ==
    \E r \in BagToSet(inflight) :
        /\ inflight' = inflight (-) SetToBag({r})
        /\ done' = NoAnswer
        /\ UNCHANGED <<now, cache, hist, sanVars, baseVars, fetchVars, pureVars>>

\* time passes
Tick ==
    /\ now < MaxTicks * TickMs
    /\ now' = now + TickMs
    /\ done' = NoAnswer
    /\ UNCHANGED <<cache, inflight, hist, sanVars, baseVars, fetchVars, pureVars>>

NextCache ==
    \/ GetNextjsFullDocs
    \/ GetTailwindFullDocs
    \/ ReadNextjsDocs
    \/ ReadTailwindDocs
    \/ ReadContentSummary
    \/ StatCompletes
    \/ ReadCompletes
    \/ Abandon
    \/ Tick

SpecCache == InitCache /\ [][NextCache]_vars

(***************************************************************************)
(* SpecRepeat: repeated fetch-by-identifier requests as time passes.       *)
(***************************************************************************)
RepeatIds == {Str(<<"a">>), Str(<<"a", "a">>)}
\* files at the small ceiling and one byte over it, and a missing file
RepeatOutcomes == {ReadFile("content", maxFileSize), ReadFile("content", maxFileSize + 1),
                   ReadFile("ENOENT", 0)}

InitRepeat ==
    /\ IdlePure
    /\ now = 0 /\ hist = <<>>
    /\ cache = [p \in DocPaths |-> {}] /\ inflight = EmptyBag /\ done = NoAnswer
    /\ IdleSan /\ IdleBase /\ IdleFetch

\* an answer with the time it was given and the size in bytes of the file
\* it returns: hist is the history of the answers, kept to state the
\* properties of repeated requests, and no variable of the program
Served(resp) ==
    [tool |-> resp.tool, id |-> resp.id, time |-> now, code |-> resp.code, reads |-> resp.reads,
     size |-> resp.size]

\* a request up to the handler's first await, MaxCalls requests in all
RepeatFetch(tool, category) ==
    /\ Len(hist) + BagCardinality(inflight) < MaxCalls
    /\ \E id \in RepeatIds :
           IF validateToolInput(tool, FetchArgs(tool, id, category)).thrown
           THEN /\ hist' = Append(hist, Served(FetchHandler(tool, id, category, NotRead)))
                /\ UNCHANGED inflight
           ELSE /\ inflight' = inflight (+) SetToBag({Awaiting(tool, id, category)})
                /\ UNCHANGED hist
    /\ UNCHANGED <<now, cache, done, sanVars, baseVars, fetchVars, pureVars>>

RepeatGetCatalystComponent == RepeatFetch("get_catalyst_component", Undefined)

RepeatGetPattern == RepeatFetch("get_pattern", Str(LAYOUTS))

\* the read of a suspended handler returns and the handler answers
RepeatReadCompletes ==
    \E s \in BagToSet(inflight), r \in RepeatOutcomes :
        /\ hist' = Append(hist, Served(FetchHandler(s.tool, s.id, s.category, r)))
        /\ inflight' = inflight (-) SetToBag({s})
        /\ UNCHANGED <<now, cache, done, sanVars, baseVars, fetchVars, pureVars>>

NextRepeat == RepeatGetCatalystComponent \/ RepeatGetPattern \/ RepeatReadCompletes \/ Tick

SpecRepeat == InitRepeat /\ [][NextRepeat]_vars

(***************************************************************************)
(* index.ts: searchInContent.                                              *)
(***************************************************************************)
NL == "\n"
BACKTICK == "BACKTICK"     \* stands for the character U+0060

Max(a, b) == IF a >= b THEN a ELSE b
Min(a, b) == IF a <= b THEN a ELSE b

LowerSeq == <<"a","b","c","d","e","f","g","h","i","j","k","l","m",
              "n","o","p","q","r","s","t","u","v","w","x","y","z">>
UpperSeq == <<"A","B","C","D","E","F","G","H","I","J","K","L","M",
              "N","O","P","Q","R","S","T","U","V","W","X","Y","Z">>

\* String.prototype.toLowerCase
toLowerCase(s) ==
    [k \in 1..Len(s) |->
        IF s[k] \in Upper THEN LowerSeq[CHOOSE j \in 1..Len(UpperSeq) : UpperSeq[j] = s[k]]
        ELSE s[k]]

\* String.prototype.includes
includes(s, needle) ==
    \E k \in 0..(Len(s) - Len(needle)) : SubSeq(s, k + 1, k + Len(needle)) = needle

\* String.prototype.split on a one-character separator
split(s, c) ==
    LET P == {k \in 1..Len(s) : s[k] = c}
        At(k) == IF k = 0 THEN 0
                 ELSE IF k > Cardinality(P) THEN Len(s) + 1
                 ELSE CHOOSE i \in P : Cardinality({j \in P : j < i}) = k - 1
    IN  [k \in 1..(Cardinality(P) + 1) |-> SubSeq(s, At(k - 1) + 1, At(k) - 1)]

\* Array.prototype.join on a one-character separator
RECURSIVE joinWith(_, _)
joinWith(segs, c) ==
    IF Len(segs) = 0 THEN <<>>
    ELSE IF Len(segs) = 1 THEN segs[1]
    ELSE segs[1] \o <<c>> \o joinWith(Tail(segs), c)

\* Array.prototype.slice(start, end) with 0 <= start <= end <= length
slice(a, start, end) == SubSeq(a, start + 1, end)

contextLines == 3    \* lines of context before and after a match

\* `i < lines.length && results.length < limit`, limit being the number
\* limit.num / limit.den
LoopContinues(lines, limit, i, results) ==
    i < Len(lines) /\ Len(results) * limit.den < limit.num

\* the window end one line short
ExcerptEnd_Short(lines, i) == Min(Len(lines), i + contextLines)

\* `Math.min(lines.length, i + contextLines + 1)`, exclusive
ExcerptEnd(lines, i) == Min(Len(lines), i + contextLines + 1)

\* `Math.max(0, i - contextLines)`
ExcerptStart(i) == Max(0, i - contextLines)

\* the value of i after the body of a matching iteration, without the skip
SkipAhead_None(i) == i

\* a skip one line short of contextLines
SkipAhead_Short(i) == i + contextLines - 1

\* `i += contextLines`
SkipAhead(i) == i + contextLines

\* the string pushed for the excerpt: the lines between a pair of fences
Fenced(excerpt) ==
    <<BACKTICK, BACKTICK, BACKTICK, NL>> \o excerpt \o <<NL, BACKTICK, BACKTICK, BACKTICK>>

\* the for loop from index i on (i counts from 0); each pushed string is kept
\* with the index of the line it was pushed for and its window [start, end)
RECURSIVE SearchLoop(_, _, _, _, _)
SearchLoop(lines, queryLower, limit, i, results) ==
    IF ~LoopContinues(lines, limit, i, results)
    THEN [found |-> results, i |-> i]
    ELSE IF includes(toLowerCase(lines[i + 1]), queryLower)
    THEN LET start == ExcerptStart(i)
             end == ExcerptEnd(lines, i)
             excerpt == joinWith(slice(lines, start, end), NL)
         IN  SearchLoop(lines, queryLower, limit, SkipAhead(i) + 1,
                        Append(results, [text |-> Fenced(excerpt), at |-> i,
                                         start |-> start, end |-> end]))
    ELSE SearchLoop(lines, queryLower, limit, i + 1, results)

SearchScan(content, query, limit) ==
    SearchLoop(split(content, NL), toLowerCase(query), limit, 0, <<>>)

searchInContent(content, query, limit) ==
    LET found == SearchScan(content, query, limit).found
    IN  [k \in 1..Len(found) |-> found[k].text]

(***************************************************************************)
(* SpecSearch: searchInContent applied to enumerated contents.             *)
(***************************************************************************)
MaxLines == 7        \* most lines of an enumerated content
MaxLimit == 2        \* largest enumerated limit below the default
DefaultLimit == 5    \* `args.limit || 5`

\* a line containing "ab" in mixed case, a line without it, an empty line
LineKinds == {<<"c", "a", "B">>, <<"c", "c">>, <<>>}
SearchContents ==
    {joinWith(ls, NL) : ls \in UNION {[1..n -> LineKinds] : n \in 1..MaxLines}}
SearchQueries == {<<"A", "b">>, <<"C">>, <<"z", "z">>}
\* the whole limits up to MaxLimit, the default, and a limit between 1 and 2
SearchLimits == {Num(k, 1) : k \in 1..MaxLimit} \cup {Num(DefaultLimit, 1), Num(3, 2)}

InitSearch ==
    /\ \E c \in SearchContents, q \in SearchQueries, l \in SearchLimits :
           search = [content |-> c, query |-> q, limit |-> l, called |-> FALSE,
                     results |-> <<>>, found |-> <<>>, i |-> 0]
    /\ IdleReco
    /\ IdleSan /\ IdleBase /\ IdleFetch /\ IdleServer

\* one call of searchInContent(content, query, limit)
CallSearchInContent ==
    /\ ~search.called
    /\ LET scan == SearchScan(search.content, search.query, search.limit) IN
       search' = [search EXCEPT !.called = TRUE,
                                !.results = searchInContent(search.content, search.query, search.limit),
                                !.found = scan.found,
                                !.i = scan.i]
    /\ UNCHANGED <<reco, sanVars, baseVars, fetchVars, serverVars>>

NextSearch == CallSearchInContent

SpecSearch == InitSearch /\ [][NextSearch]_vars

(***************************************************************************)
(* index.ts: the handlers of search_nextjs_docs and search_tailwind_docs.  *)
(***************************************************************************)
SearchTools == {"search_nextjs_docs", "search_tailwind_docs"}

\* SearchDocsArgs
SearchArgs(query, limit) == [isObject |-> TRUE, query |-> query, limit |-> limit]

\* query: z.string().min(2).max(100); limit: z.number().min(1).max(20).optional()
searchSchema(query, limit) ==
    /\ query.type = "string" /\ Len(query.str) >= 2 /\ Len(query.str) <= 100
    /\ \/ limit.type = "undefined"
       \/ limit.type = "number" /\ limit.num >= 1 * limit.den /\ limit.num <= 20 * limit.den

\* the document each search tool reads
DocPathOf(tool) == IF tool = "search_nextjs_docs" THEN nextjsDocsPath ELSE tailwindDocsPath

\* `args.limit || 5`
LimitOrDefault(limit) ==
    IF limit.type = "undefined" \/ (limit.type = "number" /\ limit.num = 0)
    THEN Num(DefaultLimit, 1)
    ELSE limit

\* the text of the document read: the query "aa" is on lines 0, 4 and 8
DocText == joinWith(<< <<"a", "a">>, <<>>, <<"b">>, <<>>, <<"A", "a">>, <<>>, <<>>, <<>>,
                        <<"a", "a", NEL>> >>, NL)

\* what readFullDocsFile can do: resolve with the text, or reject
DocOutcomes == {"content", "Error"}

\* the answer to a search request: the paths read, the limit handed to
\* searchInContent and the number of excerpts it returned
SearchResponse(tool, query, limit, code, msg, reads, used, found) ==
    [tool |-> tool, query |-> query, limit |-> limit, code |-> code, msg |-> msg,
     reads |-> reads, used |-> used, found |-> found]

\* the try/catch of a search handler; r is what readFullDocsFile does
SearchHandler(tool, query, limit, r) ==
    LET thrown == validateToolInput(tool, SearchArgs(query, limit)) IN
    IF thrown.thrown
    THEN SearchResponse(tool, query, limit, thrown.code, thrown.msg, {}, {}, 0)
    ELSE IF r = "content"
    THEN LET used == LimitOrDefault(limit)
             results == searchInContent(DocText, query.str, used)
         IN  SearchResponse(tool, query, limit, "ok",
                            IF Len(results) > 0 THEN "Found ${results.length} result(s)"
                            ELSE "No results found",
                            {DocPathOf(tool)}, {used}, Len(results))
    ELSE SearchResponse(tool, query, limit, "InternalError",
                        "ErrorHandler.formatSafeErrorMessage", {DocPathOf(tool)}, {}, 0)

\* the dispatcher's answer to arguments that do not satisfy the inputSchema
SearchSchemaRejection(tool, query, limit) ==
    SearchResponse(tool, query, limit, "InvalidParams", "inputSchema", {}, {}, 0)

(***************************************************************************)
(* SpecSearchArgs: search requests over enumerated queries and limits.     *)
(***************************************************************************)
MaxQueryLen == 2     \* longest query enumerated character by character

QueryAlphabet == {"a", TAB, NEL}
QueryInputs ==
    {Str(s) : s \in UNION {[1..k -> QueryAlphabet] : k \in 0..MaxQueryLen}}
    \cup {Str(<<"a", c>>) : c \in ControlClass}
    \cup {Str(Rep("a", 100)), Str(Rep("a", 101)), Undefined, NumberValue}

\* absent, the ends of the range, their neighbours, fractions, and a string
LimitInputs == {NoLimit, StringLimit, Num(0, 1), Num(1, 1), Num(20, 1), Num(21, 1),
                Num(1, 2), Num(3, 2), Num(41, 2)}

InitSearchArgs == IdleSan /\ IdleBase /\ IdleFetch /\ IdleServer /\ IdlePure

\* the requests that run side by side: a valid query and one with a control
\* character, without a limit
OverlapQueries == {Str(<<"a", "a">>), Str(<<"a", NUL>>)}

\* a search handler suspended at `await fileService.readFullDocsFile(...)`
AwaitingSearch(tool, query, limit) ==
    [tool |-> tool, query |-> query, limit |-> limit, path |-> DocPathOf(tool),
     stage |-> "readFullDocsFile"]

\* the arguments a request can start with: any of the enumerated ones while
\* nothing else has run, those of OverlapQueries next to other requests
StartSearchArgs ==
    IF inflight = EmptyBag /\ last.tool = "none" THEN QueryInputs \X LimitInputs
    ELSE IF /\ BagCardinality(inflight) < MaxInflight
            /\ \A s \in BagToSet(inflight) : s.query \in OverlapQueries /\ s.limit = NoLimit
            /\ last.tool = "none" \/ (last.query \in OverlapQueries /\ last.limit = NoLimit)
    THEN OverlapQueries \X {NoLimit}
    ELSE {}

\* arguments that do not satisfy the inputSchema never reach the handler;
\* the handler answers at once when validateToolInput throws and otherwise
\* suspends at the read of the document
SearchDispatch(tool, query, limit) ==
    /\ IF ~searchSchema(query, limit)
       THEN last' = SearchSchemaRejection(tool, query, limit) /\ UNCHANGED inflight
       ELSE IF validateToolInput(tool, SearchArgs(query, limit)).thrown
       THEN last' = SearchHandler(tool, query, limit, "none") /\ UNCHANGED inflight
       ELSE /\ inflight' = inflight (+) SetToBag({AwaitingSearch(tool, query, limit)})
            /\ UNCHANGED last
    /\ UNCHANGED <<now, cache, done, hist, sanVars, baseVars, pureVars>>

SearchNextjsDocs ==
    \E a \in StartSearchArgs : SearchDispatch("search_nextjs_docs", a[1], a[2])

SearchTailwindDocs ==
    \E a \in StartSearchArgs : SearchDispatch("search_tailwind_docs", a[1], a[2])

\* readFullDocsFile returns to a suspended search handler, which answers
SearchReadCompletes ==
    \E s \in BagToSet(inflight), r \in DocOutcomes :
        /\ last' = SearchHandler(s.tool, s.query, s.limit, r)
        /\ inflight' = inflight (-) SetToBag({s})
        /\ UNCHANGED <<now, cache, done, hist, sanVars, baseVars, pureVars>>

NextSearchArgs == SearchNextjsDocs \/ SearchTailwindDocs \/ SearchReadCompletes

SpecSearchArgs == InitSearchArgs /\ [][NextSearchArgs]_vars

(***************************************************************************)
(* SpecSearchOp: search, component and pattern requests next to the cache  *)
(* of the full-document reader.                                            *)
(***************************************************************************)
\* what the last step of a request did: the tool, whether the inputSchema
\* rejected it, validateToolInput threw or the handler went on to its first
\* await, the paths it handed to fs.readFile and whether it called
\* readFullDocsFile
OpLog(tool, outcome, reads, cacheAccess) ==
    [tool |-> tool, outcome |-> outcome, reads |-> reads, cacheAccess |-> cacheAccess,
     flip |-> ~last.flip]

\* a step of a request that neither calls readFullDocsFile nor suspends
NoServerStep ==
    /\ done' = NoAnswer
    /\ UNCHANGED <<now, cache, inflight, hist>>

\* a search handler that reads the document before it validates
SearchRequest_ReadsFirst(tool, query, limit) ==
    IF ~searchSchema(query, limit)
    THEN /\ last' = OpLog(tool, "schema", {}, FALSE)
         /\ NoServerStep
    ELSE /\ ReadFullDocsFile(tool, DocPathOf(tool), largeFileSize)
         /\ last' = OpLog(tool,
                          IF validateToolInput(tool, SearchArgs(query, limit)).thrown
                          THEN "threw" ELSE "proceeded",
                          {}, TRUE)

\* a search request up to its first await: validateToolInput, then
\* readFullDocsFile; the excerpts are searchInContent of what that call
\* resolves with (done)
SearchRequest(tool, query, limit) ==
    IF ~searchSchema(query, limit)
    THEN /\ last' = OpLog(tool, "schema", {}, FALSE)
         /\ NoServerStep
    ELSE IF validateToolInput(tool, SearchArgs(query, limit)).thrown
    THEN /\ last' = OpLog(tool, "threw", {}, FALSE)
         /\ NoServerStep
    ELSE /\ ReadFullDocsFile(tool, DocPathOf(tool), largeFileSize)
         /\ last' = OpLog(tool, "proceeded", {}, TRUE)

\* a component or pattern request up to its first await: validateToolInput,
\* then the assembled path is handed to fs.readFile and the handler suspends
FetchRequest(tool, id, category) ==
    IF ~inputSchema(tool, id, category)
    THEN /\ last' = OpLog(tool, "schema", {}, FALSE)
         /\ NoServerStep
    ELSE IF validateToolInput(tool, FetchArgs(tool, id, category)).thrown
    THEN /\ last' = OpLog(tool, "threw", {}, FALSE)
         /\ NoServerStep
    ELSE /\ BagCardinality(inflight) < MaxInflight
         /\ last' = OpLog(tool, "proceeded", {AssembledPath(tool, id, category)}, FALSE)
         /\ inflight' = inflight (+) SetToBag({Awaiting(tool, id, category)})
         /\ done' = NoAnswer
         /\ UNCHANGED <<now, cache, hist>>

\* a valid query, one with a control character, one the schema rejects
OpQueries == {Str(<<"a", "a">>), Str(<<"a", NUL>>), Str(<<"a">>)}
OpLimits == {NoLimit}
\* a valid identifier and one with a separator
OpIds == {Str(<<"a">>), Str(<<SLASH>>)}
\* a category of the schema and one outside it
OpCategories == {Str(LAYOUTS), Str(DotDotSeg)}
\* fs.readFile resolves, or fails because the file does not exist
OpOutcomes == {ReadFile("content", maxFileSize), ReadFile("ENOENT", 0)}

InitSearchOp ==
    /\ IdleSan /\ IdleBase /\ IdlePure
    /\ now = 0
    /\ cache = [p \in DocPaths |-> {}]
    /\ inflight = EmptyBag
    /\ done = NoAnswer
    /\ hist = <<>>
    /\ last = [tool |-> "none", outcome |-> "none", reads |-> {}, cacheAccess |-> FALSE,
               flip |-> FALSE]

RequestSearchNextjsDocs ==
    \E q \in OpQueries, l \in OpLimits :
        /\ SearchRequest("search_nextjs_docs", q, l)
        /\ UNCHANGED <<sanVars, baseVars, pureVars>>

RequestSearchTailwindDocs ==
    \E q \in OpQueries, l \in OpLimits :
        /\ SearchRequest("search_tailwind_docs", q, l)
        /\ UNCHANGED <<sanVars, baseVars, pureVars>>

RequestCatalystComponent ==
    \E id \in OpIds :
        /\ FetchRequest("get_catalyst_component", id, Undefined)
        /\ UNCHANGED <<sanVars, baseVars, pureVars>>

RequestPattern ==
    \E id \in OpIds, c \in OpCategories :
        /\ FetchRequest("get_pattern", id, c)
        /\ UNCHANGED <<sanVars, baseVars, pureVars>>

\* fs.readFile returns to a suspended component or pattern handler, which
\* answers: the outcome logged is the code of the answer
RequestReadCompletes ==
    \E s \in BagToSet(inflight), r \in OpOutcomes :
        /\ s.stage = "readFile"
        /\ last' = OpLog(s.tool, FetchHandler(s.tool, s.id, s.category, r).code, {}, FALSE)
        /\ inflight' = inflight (-) SetToBag({s})
        /\ done' = NoAnswer
        /\ UNCHANGED <<now, cache, hist, sanVars, baseVars, pureVars>>

NextSearchOp ==
    \/ RequestSearchNextjsDocs
    \/ RequestSearchTailwindDocs
    \/ RequestCatalystComponent
    \/ RequestPattern
    \/ RequestReadCompletes
    \/ StatCompletes
    \/ ReadCompletes

SpecSearchOp == InitSearchOp /\ [][NextSearchOp]_vars

(***************************************************************************)
(* index.ts: calculateRecommendations.                                     *)
(*                                                                         *)
(* An optional field is a set of at most one value.  A score is kept as    *)
(* the exact fraction num/den until Math.round.                            *)
(***************************************************************************)
\* RecommendTemplateArgs
Criteria(purpose, colorPreference, animations, features, complexity) ==
    [purpose |-> purpose, colorPreference |-> colorPreference, animations |-> animations,
     features |-> features, complexity |-> complexity]

\* JavaScript truthiness of an optional string: present and not ""
Truthy(opt) == opt # {} /\ opt # {""}

\* a test of the criterion alone
DimensionMatches_IgnoresProfile(value, field) == Truthy(value)

\* `criteria.x && matchData.x && matchData.x.includes(criteria.x)`; the field
\* of matchData is a set of at most one array, an array being the set of its entries
DimensionMatches(value, field) ==
    Truthy(value) /\ field # {} /\ TheOne(value) \in TheOne(field)

\* a filter that keeps every requested feature
matchedFeatures_All(features, field) == features

\* `criteria.features.filter(f => matchData.features.includes(f))`
matchedFeatures(features, field) ==
    SelectSeq(features, LAMBDA f : f \in TheOne(field))

\* featureScore counted as 15 for every matched feature
FeatureScore_PerFeature(matched, total) == [num |-> matched * 15, den |-> 1]

\* `(matchedFeatures.length / criteria.features.length) * 15`
FeatureScore(matched, total) == [num |-> matched * 15, den |-> total]

\* `score += n` adding n twice
Plus_Twice(score, n) == [num |-> score.num + 2 * n * score.den, den |-> score.den]

\* `score += n` for an integer n
Plus(score, n) == [num |-> score.num + n * score.den, den |-> score.den]

\* `score += featureScore`, score being an integer so far
PlusFraction(score, f) == [num |-> score.num * f.den + f.num, den |-> f.den]

\* Math.round cutting the fraction off
Round_Truncating(score) == score.num \div score.den

\* Math.round of a non-negative number: the nearest integer, halves upwards
Round(score) == (2 * score.num + score.den) \div (2 * score.den)

\* `score >= 0` in place of `score > 0`
ScorePositive_OrZero(score) == score.num >= 0

\* `score > 0`
ScorePositive(score) == score.num > 0

Reason(text, value) == [text |-> text, value |-> value]

\* the body of the for loop for one kit with its matchData: the score before
\* rounding and the reasons
ScoreKit(matchData, criteria) ==
    LET s0 == [num |-> 0, den |-> 1]
        purposeHit == DimensionMatches(criteria.purpose, matchData.purpose)
        s1 == IF purposeHit THEN Plus(s0, 40) ELSE s0
        r1 == IF purposeHit
              THEN <<Reason("Perfect match for ${criteria.purpose} use case", TheOne(criteria.purpose))>>
              ELSE <<>>
        colorHit == DimensionMatches(criteria.colorPreference, matchData.colorPreference)
        s2 == IF colorHit THEN Plus(s1, 15) ELSE s1
        r2 == IF colorHit
              THEN Append(r1, Reason("Matches ${criteria.colorPreference} color scheme preference",
                                     TheOne(criteria.colorPreference)))
              ELSE r1
        animationsHit == DimensionMatches(criteria.animations, matchData.animations)
        s3 == IF animationsHit THEN Plus(s2, 20) ELSE s2
        r3 == IF animationsHit
              THEN Append(r2, Reason("Has ${criteria.animations} animation level",
                                     TheOne(criteria.animations)))
              ELSE r2
        featuresOn == /\ criteria.features # {}
                      /\ Len(TheOne(criteria.features)) > 0
                      /\ matchData.features # {}
        matched == IF featuresOn
                   THEN Len(matchedFeatures(TheOne(criteria.features), matchData.features))
                   ELSE 0
        s4 == IF featuresOn
              THEN PlusFraction(s3, FeatureScore(matched, Len(TheOne(criteria.features))))
              ELSE s3
        r4 == IF featuresOn /\ matched > 0
              THEN Append(r3, Reason("Includes ${matchedFeatures.length} of your requested features",
                                     ToString(matched)))
              ELSE r3
        complexityHit == DimensionMatches(criteria.complexity, matchData.complexity)
        s5 == IF complexityHit THEN Plus(s4, 10) ELSE s4
        r5 == IF complexityHit
              THEN Append(r4, Reason("Matches ${criteria.complexity} complexity level",
                                     TheOne(criteria.complexity)))
              ELSE r4
    IN  [score |-> s5, reasons |-> r5]

\* the for loop over data.starterKits from the k-th kit on
RECURSIVE ScoreKits(_, _, _, _, _)
ScoreKits(kits, matching, criteria, k, recommendations) ==
    IF k > Len(kits) THEN recommendations
    ELSE LET kit == kits[k] IN
         IF kit.id \notin DOMAIN matching
         THEN ScoreKits(kits, matching, criteria, k + 1, recommendations)
         ELSE LET sc == ScoreKit(matching[kit.id], criteria) IN
              IF ScorePositive(sc.score)
              THEN ScoreKits(kits, matching, criteria, k + 1,
                             Append(recommendations,
                                    [kit |-> kit, score |-> Round(sc.score), reasons |-> sc.reasons]))
              ELSE ScoreKits(kits, matching, criteria, k + 1, recommendations)

\* the sort with the comparator the other way round
SortByScore_Ascending(recs) ==
    LET n == Len(recs)
        rank(i) == 1 + Cardinality({j \in 1..n : \/ recs[j].score < recs[i].score
                                                 \/ (recs[j].score = recs[i].score /\ j < i)})
    IN  [k \in 1..n |-> recs[CHOOSE i \in 1..n : rank(i) = k]]

\* `recommendations.sort((a, b) => b.score - a.score)`: Array.prototype.sort
\* is stable, so equal scores keep their order
SortByScore(recs) ==
    LET n == Len(recs)
        rank(i) == 1 + Cardinality({j \in 1..n : \/ recs[j].score > recs[i].score
                                                 \/ (recs[j].score = recs[i].score /\ j < i)})
    IN  [k \in 1..n |-> recs[CHOOSE i \in 1..n : rank(i) = k]]

calculateRecommendations(data, criteria) ==
    SortByScore(ScoreKits(data.starterKits, data.matching, criteria, 1, <<>>))

(***************************************************************************)
(* SpecReco: calculateRecommendations applied to enumerated template data  *)
(* and criteria.                                                           *)
(***************************************************************************)
MaxKits == 3         \* most records with a profile in the enumerated data
MaxFeatures == 31    \* entries of the longest enumerated feature list
MaxShort == 2        \* longest feature list enumerated entry by entry

Arr(S) == {S}        \* a field of matchData that is present
Absent == {}         \* a field that is not

\* the matching profiles the enumerated data is made of
ProfileFull == [purpose |-> Arr({"dashboard", "app"}), colorPreference |-> Arr({"professional"}),
                animations |-> Arr({"high"}), features |-> Arr({"auth", "darkmode"}),
                complexity |-> Arr({"advanced"})]
ProfilePart == [purpose |-> Arr({"blog"}), colorPreference |-> Arr({"warm", "professional"}),
                animations |-> Absent, features |-> Arr({"auth"}),
                complexity |-> Arr({"beginner"})]
ProfileBare == [purpose |-> Arr({"dashboard"}), colorPreference |-> Absent,
                animations |-> Arr({}), features |-> Absent, complexity |-> Absent]
Profiles == {ProfileFull, ProfilePart, ProfileBare}

KitNames == <<"k1", "k2", "k3", "k4", "k5">>

\* n records with a profile each, followed by one record without
TemplateData ==
    {[starterKits |-> [k \in 1..(n + 1) |-> [id |-> KitNames[k]]],
      matching |-> [id \in {KitNames[k] : k \in 1..n} |-> pr[id]]]
        : n \in 1..MaxKits, pr \in [{KitNames[k] : k \in 1..MaxKits} -> Profiles]}

FeatureNames == {"auth", "darkmode", "cms"}
ShortFeatureLists == UNION {[1..n -> FeatureNames] : n \in 0..MaxShort}
\* MaxFeatures entries of which the first m are "auth"
LongFeatureLists == {[i \in 1..MaxFeatures |-> IF i <= m THEN "auth" ELSE "cms"] : m \in 1..2}

\* a list with a repeated entry, half of whose entries are "auth"
RepeatedFeatureLists == {<<"auth", "auth", "darkmode", "cms">>}

CriteriaInputs ==
    {Criteria(p, c, a, f, x) :
        p \in {{}, {""}, {"dashboard"}, {"media"}},
        c \in {{}, {"professional"}},
        a \in {{}, {"high"}},
        f \in {{}} \cup {{l} : l \in ShortFeatureLists \cup LongFeatureLists
                                       \cup RepeatedFeatureLists},
        x \in {{}, {"advanced"}}}

InitReco ==
    /\ \E d \in TemplateData, c \in CriteriaInputs :
           reco = [data |-> d, criteria |-> c, called |-> FALSE, result |-> <<>>]
    /\ IdleSearch
    /\ IdleSan /\ IdleBase /\ IdleFetch /\ IdleServer

\* one call of calculateRecommendations(data, criteria)
CallCalculateRecommendations ==
    /\ ~reco.called
    /\ reco' = [reco EXCEPT !.called = TRUE,
                            !.result = calculateRecommendations(reco.data, reco.criteria)]
    /\ UNCHANGED <<search, sanVars, baseVars, fetchVars, serverVars>>

NextReco == CallCalculateRecommendations

SpecReco == InitReco /\ [][NextReco]_vars

(***************************************************************************)
(* index.ts: the handlers of recommend_template and answer_questionnaire.  *)
(***************************************************************************)
\* `Math.min(3, recommendations.length)`
TopCount == 3

\* what the output says of one recommendation: the record, its score and
\* its reasons
Entry(rec) == [id |-> rec.kit.id, score |-> rec.score, reasons |-> rec.reasons]

\* a for loop that formats every recommendation
TopRecommendations_All(recommendations) ==
    [i \in 1..Len(recommendations) |-> Entry(recommendations[i])]

\* `for (let i = 0; i < Math.min(3, recommendations.length); i++)`
TopRecommendations(recommendations) ==
    [i \in 1..Min(TopCount, Len(recommendations)) |-> Entry(recommendations[i])]

\* the answer of a recommendation tool: recommendations is the handler's
\* local of that name, output the entries formatted into the text, fs what
\* fs.readFile did ("none" when the handler has not got that far)
RecoResponse(code, recommendations, output, fs) ==
    [code |-> code, recommendations |-> recommendations, output |-> output, fs |-> fs]
NotAsked == RecoResponse("none", <<>>, <<>>, "none")
\* the handler is suspended at `await fs.readFile(CONFIG.templatesPath, 'utf-8')`
AwaitingTemplates == RecoResponse("awaiting", <<>>, <<>>, "none")

\* the try/catch of recommend_template; r is what fs.readFile does with
\* templatesPath, data what JSON.parse makes of the content; args satisfy
\* the inputSchema (strings, and an array of strings for features)
RecommendTemplateHandler(data, args, r) ==
    IF r # "content"
    THEN RecoResponse("InternalError", <<>>, <<>>, r)
    ELSE LET recommendations == calculateRecommendations(data, args)
         IN  RecoResponse("ok", recommendations, TopRecommendations(recommendations), r)

\* a value of args.answers: `z.union([z.string(), z.array(z.string())])`
StringAnswer(s) == [type |-> "string", str |-> s, arr |-> <<>>]
ArrayAnswer(a) == [type |-> "array", str |-> "", arr |-> a]

\* `args.answers.key`: undefined for a key the answers do not have
AnswerOf(answers, key) == IF key \in DOMAIN answers THEN {answers[key]} ELSE {}

\* a conversion that leaves complexity out
CriteriaOfAnswers_NoComplexity(answers) ==
    Criteria(AnswerOf(answers, "purpose"), AnswerOf(answers, "colorPreference"),
             AnswerOf(answers, "animations"), AnswerOf(answers, "features"), {})

\* "Convert answers to recommendation criteria": the casts `as string` and
\* `as string[]` do nothing at run time, each value stays what it is
CriteriaOfAnswers(answers) ==
    Criteria(AnswerOf(answers, "purpose"), AnswerOf(answers, "colorPreference"),
             AnswerOf(answers, "animations"), AnswerOf(answers, "features"),
             AnswerOf(answers, "complexity"))

\* calculateRecommendations entered with the values of the answers:
\* `criteria.features.filter` is no function when features is a string, and
\* the call is reached (`criteria.features && criteria.features.length > 0
\* && matchData.features`) for a string that is not empty in the first
\* record whose matchData has features
FilterThrows(data, criteria) ==
    /\ criteria.features # {}
    /\ TheOne(criteria.features).type = "string"
    /\ TheOne(criteria.features).str # ""
    /\ \E k \in 1..Len(data.starterKits) :
           /\ data.starterKits[k].id \in DOMAIN data.matching
           /\ data.matching[data.starterKits[k].id].features # {}

\* what calculateRecommendations reads of a value in the place of a string:
\* an array is truthy and `matchData.x.includes(array)` is false for an
\* array of strings, so it scores as a criterion that is not given
ScalarRead(opt) ==
    IF opt # {} /\ TheOne(opt).type = "string" THEN {TheOne(opt).str} ELSE {}

\* what it reads of a value in the place of features when filter is not
\* called on a string: "" is falsy, and a string that is not empty is passed
\* over when no matchData has features
FeaturesRead(opt) ==
    IF opt # {} /\ TheOne(opt).type = "array" THEN {TheOne(opt).arr} ELSE {}

CriteriaRead(criteria) ==
    Criteria(ScalarRead(criteria.purpose), ScalarRead(criteria.colorPreference),
             ScalarRead(criteria.animations), FeaturesRead(criteria.features),
             ScalarRead(criteria.complexity))

\* the try/catch of answer_questionnaire: a TypeError thrown by
\* calculateRecommendations is caught and answered as InternalError
AnswerQuestionnaireHandler(data, answers, r) ==
    IF r # "content"
    THEN RecoResponse("InternalError", <<>>, <<>>, r)
    ELSE LET criteria == CriteriaOfAnswers(answers) IN
         IF FilterThrows(data, criteria)
         THEN RecoResponse("InternalError", <<>>, <<>>, r)
         ELSE LET recommendations == calculateRecommendations(data, CriteriaRead(criteria))
              IN  RecoResponse("ok", recommendations, TopRecommendations(recommendations), r)

(***************************************************************************)
(* SpecRecoOp: both recommendation tools asked about the same template     *)
(* data, recommend_template with criteria and answer_questionnaire with    *)
(* answers holding the same values, or with one value of the other type.   *)
(***************************************************************************)
MaxOpKits == 4       \* records with a profile in the enumerated data

\* MaxOpKits records with a profile each, followed by one record without
OpTemplateData ==
    {[starterKits |-> [k \in 1..(MaxOpKits + 1) |-> [id |-> <<"k", k>>]],
      matching |-> [id \in {<<"k", k>> : k \in 1..MaxOpKits} |-> pr[id[2]]]]
        : pr \in [1..MaxOpKits -> Profiles]}

OpCriteria ==
    {Criteria(p, c, a, f, x) :
        p \in {{}, {"dashboard"}},
        c \in {{}, {"professional"}},
        a \in {{}, {"high"}},
        f \in {{}, {<<"auth">>}, {<<"auth", "cms">>}},
        x \in {{}, {"advanced"}}}

CriteriaKeys == {"purpose", "colorPreference", "animations", "features", "complexity"}

\* the answers that hold the values of criteria: a key for every value that
\* is present and, with extra, a key that is no criterion
AnswersOf(criteria, extra) ==
    [k \in {key \in CriteriaKeys : criteria[key] # {}} \cup extra |->
        IF k = "features" THEN ArrayAnswer(TheOne(criteria[k]))
        ELSE IF k \in CriteriaKeys THEN StringAnswer(TheOne(criteria[k]))
        ELSE StringAnswer("large")]

\* answers with the value of one key replaced
AnswersWith(answers, key, value) ==
    [k \in DOMAIN answers \cup {key} |-> IF k = key THEN value ELSE answers[k]]

\* the answers enumerated for criteria: the same values, the same with a key
\* that is no criterion, features given as a string (empty or not), and
\* purpose given as an array
OpAnswers(criteria) ==
    {AnswersOf(criteria, {}), AnswersOf(criteria, {"budget"}),
     AnswersWith(AnswersOf(criteria, {}), "features", StringAnswer("auth")),
     AnswersWith(AnswersOf(criteria, {}), "features", StringAnswer("")),
     AnswersWith(AnswersOf(criteria, {}), "purpose", ArrayAnswer(<<"dashboard">>))}

\* fs.readFile of templatesPath resolves, or fails
TemplateOutcomes == {"content", "ENOENT"}

InitRecoOp ==
    /\ \E d \in OpTemplateData, c \in OpCriteria :
        \E answers \in OpAnswers(c) :
           reco = [data |-> d, criteria |-> c, answers |-> answers,
                   recommend |-> NotAsked, questionnaire |-> NotAsked]
    /\ IdleSearch
    /\ IdleSan /\ IdleBase /\ IdleFetch /\ IdleServer

\* recommend_template up to its first await
RecommendTemplate ==
    /\ reco.recommend = NotAsked
    /\ reco' = [reco EXCEPT !.recommend = AwaitingTemplates]
    /\ UNCHANGED <<search, sanVars, baseVars, fetchVars, serverVars>>

\* the read returns to recommend_template, which answers
RecommendTemplateReadCompletes ==
    /\ reco.recommend = AwaitingTemplates
    /\ \E r \in TemplateOutcomes :
           reco' = [reco EXCEPT !.recommend = RecommendTemplateHandler(reco.data, reco.criteria, r)]
    /\ UNCHANGED <<search, sanVars, baseVars, fetchVars, serverVars>>

\* answer_questionnaire up to its first await
AnswerQuestionnaire ==
    /\ reco.questionnaire = NotAsked
    /\ reco' = [reco EXCEPT !.questionnaire = AwaitingTemplates]
    /\ UNCHANGED <<search, sanVars, baseVars, fetchVars, serverVars>>

\* the read returns to answer_questionnaire, which answers
AnswerQuestionnaireReadCompletes ==
    /\ reco.questionnaire = AwaitingTemplates
    /\ \E r \in TemplateOutcomes :
           reco' = [reco EXCEPT !.questionnaire =
                                    AnswerQuestionnaireHandler(reco.data, reco.answers, r)]
    /\ UNCHANGED <<search, sanVars, baseVars, fetchVars, serverVars>>

NextRecoOp ==
    \/ RecommendTemplate
    \/ RecommendTemplateReadCompletes
    \/ AnswerQuestionnaire
    \/ AnswerQuestionnaireReadCompletes

SpecRecoOp == InitRecoOp /\ [][NextRecoOp]_vars

(***************************************************************************)
(* Properties of the sanitizer (SpecSan).                                  *)
(***************************************************************************)
SanCalled == validation # NotCalled

\* the input contains "..", "/", "\" or NUL somewhere
ContainsDangerous(s) ==
    \/ IncludesDotDot(s)
    \/ IncludesChar(s, SLASH)
    \/ IncludesChar(s, BACKSLASH)
    \/ IncludesChar(s, NUL)

\* the input matches ^[A-Za-z0-9\-_.]{1,50}$
MatchesIdentifier(s) ==
    Len(s) >= 1 /\ Len(s) <= 50 /\ \A i \in 1..Len(s) : s[i] \in AllowedChars

\* C2: every input string that contains "..", "/", "\" or NUL anywhere is
\* answered with isValid = false, an error and no sanitizedValue.
C2_DangerousInputRejected ==
    (SanCalled /\ userInput.type = "string" /\ ContainsDangerous(userInput.str))
        => /\ ~validation.isValid
           /\ validation.error # {}
           /\ validation.sanitizedValue = {}

\* C23: sanitizeAndValidatePath reports the first failure of a fixed order:
\* an empty or non-string input fails as empty; otherwise an input whose raw
\* length exceeds maxLength fails as too long, whatever it normalizes to;
\* otherwise a normalized value (path.normalize, then the leading "../" run
\* removed) containing "..", "/", "\" or NUL fails as traversal; otherwise a
\* normalized value not matching ^[a-zA-Z0-9\-_.]+$ fails as disallowed.
C23_FirstFailureReported ==
    SanCalled =>
        IF userInput.type # "string" \/ Len(userInput.str) = 0
        THEN validation.error = {ErrEmpty}
        ELSE IF Len(userInput.str) > maxLength
        THEN validation.error = {ErrTooLong}
        ELSE LET nv == StripLeadingDotDot(normalize(userInput.str)) IN
             IF ContainsDangerous(nv)
             THEN validation.error = {ErrTraversal}
             ELSE IF ~(Len(nv) >= 1 /\ \A i \in 1..Len(nv) : nv[i] \in AllowedChars)
             THEN validation.error = {ErrDisallowed}
             ELSE validation.error = {}

\* an input one character longer than maxLength whose normalized value is
\* shorter than maxLength is answered as too long
C23_Witness ==
    /\ SanCalled /\ maxLength = IdMaxLength
    /\ userInput = Str(<<DOT, DOT, SLASH>> \o Rep("a", IdMaxLength - 2))
    /\ validation.error = {ErrTooLong}

\* C3 as stated: every identifier matching ^[A-Za-z0-9\-_.]{1,50}$ is accepted
\* by sanitizeAndValidatePath(identifier, 50) and returned unchanged.
C3_IdentifierAccepted ==
    (SanCalled /\ maxLength = IdMaxLength /\ userInput.type = "string"
        /\ MatchesIdentifier(userInput.str))
        => validation = Valid(userInput.str)

\* C3 amended: every identifier matching ^[A-Za-z0-9\-_.]{1,50}$ that does not
\* contain ".." is accepted by sanitizeAndValidatePath(identifier, 50) and
\* returned unchanged.
C3_IdentifierWithoutDotDotAccepted ==
    (SanCalled /\ maxLength = IdMaxLength /\ userInput.type = "string"
        /\ MatchesIdentifier(userInput.str) /\ ~IncludesDotDot(userInput.str))
        => validation = Valid(userInput.str)

\* an identifier with dots and hyphens, of the longest enumerated length, accepted unchanged
C3_Witness ==
    /\ SanCalled /\ maxLength = IdMaxLength
    /\ userInput.type = "string"
    /\ Len(userInput.str) = MaxLen
    /\ IncludesChar(userInput.str, DOT) /\ IncludesChar(userInput.str, "-")
    /\ validation = Valid(userInput.str)

(***************************************************************************)
(* Properties of the boundary checker (SpecBase).                          *)
(***************************************************************************)
BaseCalled == within # "not-called"

\* the resolved candidate is the resolved base, or the resolved base, a
\* separator and something more
EqualOrBelow(rc, rb) ==
    \/ rc = rb
    \/ \E k \in 1..Len(rc) : SubSeq(rc, 1, k) = rb \o sep

LastSeg(p) == LET segs == Split(p) IN segs[Len(segs)]

\* the last segment of the base is a name: the base is not empty, does not
\* end with the separator, and its last segment is neither "." nor ".."
NamesDirectory(b) == LastSeg(b) \notin {<<>>, DotSeg, DotDotSeg}

Root == <<SLASH>>

\* C6 as stated: true exactly when the resolved candidate equals the resolved
\* base or starts with it followed by the separator; base + sep + "x" is
\* inside and the sibling base + "-sibling/x" is outside.
C6_WithinBase ==
    BaseCalled =>
        /\ (within = "true") <=> EqualOrBelow(resolve(requestedPath), resolve(basePath))
        /\ requestedPath = ChildOf(basePath) => within = "true"
        /\ requestedPath = SiblingOf(basePath) => within = "false"

\* C6 amended: true exactly when the resolved candidate equals the resolved
\* base or starts with it followed by the separator; base + sep + "x" is
\* inside for every base that is not empty and does not resolve to the root
\* directory, and base + "-sibling/x" is outside for every base whose last
\* segment is a name.
C6_WithinBaseOfNamedDirectory ==
    BaseCalled =>
        /\ (within = "true") <=> EqualOrBelow(resolve(requestedPath), resolve(basePath))
        /\ (requestedPath = ChildOf(basePath) /\ basePath # <<>> /\ resolve(basePath) # Root)
               => within = "true"
        /\ (requestedPath = SiblingOf(basePath) /\ NamesDirectory(basePath))
               => within = "false"

\* the sibling of a relative base that ends in a name was checked and found
\* outside, the base being no prefix-free string: it contains a separator
C6_Witness ==
    /\ within = "false"
    /\ requestedPath = SiblingOf(basePath)
    /\ NamesDirectory(basePath)
    /\ basePath[1] # SLASH /\ IncludesChar(basePath, SLASH)

(***************************************************************************)
(* Properties of the fetch-by-identifier handlers (SpecFetch, SpecRepeat). *)
(***************************************************************************)
FetchByIdentifier == {"get_catalyst_component", "get_pattern", "get_library_docs"}
TakesIdentifier == FetchByIdentifier \cup {"get_starter_kit"}

\* C1: every get_catalyst_component, get_pattern or get_library_docs request
\* that reaches its file read reads a path inside the operation's base directory.
C1_ReadsStayInsideBase ==
    (last.tool \in FetchByIdentifier /\ last.reads # {})
        => \A p \in last.reads : isPathWithinBase(p, BaseOf(last.tool, last.category))

\* the identifier has a separator, a NUL or "..", is longer than 50
\* characters, or has a character outside [A-Za-z0-9-_.]
BadIdentifier(s) ==
    \/ ContainsDangerous(s)
    \/ Len(s) > 50
    \/ \E i \in 1..Len(s) : s[i] \notin AllowedChars

\* C4: in each of the four operations that take an identifier, a bad
\* identifier is rejected with a validation error and no file is read.
C4_BadIdentifierRejected ==
    (last.tool \in TakesIdentifier /\ last.id.type = "string" /\ BadIdentifier(last.id.str))
        => (last.code = "InvalidParams" /\ last.reads = {})

\* C5: a fetch-by-identifier request reads its assembled path only after
\* isPathWithinBase was evaluated on it and returned true.
C5_BoundaryCheckedBeforeRead ==
    (last.tool \in FetchByIdentifier /\ last.reads # {})
        => /\ "isPathWithinBase" \in last.calls
           /\ \A p \in last.reads : isPathWithinBase(p, BaseOf(last.tool, last.category))

\* C7: of two successful fetch-by-identifier calls for the same identifier
\* less than five minutes apart, only one reads the file.
C7_OneReadPerWindow ==
    \A i, j \in 1..Len(hist) :
        (/\ i < j
         /\ hist[i].tool = hist[j].tool /\ hist[i].id = hist[j].id
         /\ hist[i].code = "ok" /\ hist[j].code = "ok"
         /\ hist[j].time - hist[i].time < 5 * 60 * 1000)
            => ~(hist[i].reads # {} /\ hist[j].reads # {})

\* C11: a component or pattern fetch never returns a file larger than the
\* small ceiling maxFileSize (1 MB): such a file fails with TooLarge instead.
C11_SmallCeilingEnforced ==
    \A i \in 1..Len(hist) :
        (hist[i].tool \in {"get_catalyst_component", "get_pattern"} /\ hist[i].reads # {}
            /\ hist[i].code = "ok")
            => hist[i].size <= maxFileSize

(***************************************************************************)
(* Properties of the content cache (SpecCache).                            *)
(***************************************************************************)
FiveMinutes == 5 * 60 * 1000
Answered == done' # NoAnswer
Failures == {"NotFound", "TooLarge", "ReadError"}

\* C8: a get suspends for file I/O only when the path has no entry younger
\* than five minutes; an answer given without file I/O is the content of an
\* entry younger than five minutes and leaves the cache as it is; an answer
\* given after a read leaves the path's entry holding the content read and
\* the current time.
C8_Step ==
    /\ \A r \in BagToSet(inflight') :
          (r.stage = "stat" /\ CopiesIn(r, inflight') > CopiesIn(r, inflight))
              => \A e \in cache[r.path] : ~(now - e.lastModified < FiveMinutes)
    /\ (Answered /\ done'.code = "ok" /\ ~done'.read)
          => /\ \E e \in cache[done'.path] :
                   /\ now - e.lastModified < FiveMinutes
                   /\ done'.content = e.content
             /\ cache' = cache
    /\ (Answered /\ done'.code = "ok" /\ done'.read)
          => cache'[done'.path] = {[content |-> done'.content, lastModified |-> now]}

C8_FreshServedStaleReread == [][C8_Step]_vars

\* an answer served from an entry two and a half minutes old
C8_Witness ==
    /\ done.code = "ok" /\ ~done.read
    /\ \E e \in cache[done.path] : e.content = done.content /\ now - e.lastModified = TickMs

\* C9: a get that fails (missing file, oversized file, read error) leaves the
\* cache map exactly as it was: neither the step that answers with the
\* failure nor a step that suspends a call changes any entry.
C9_Step ==
    /\ (Answered /\ done'.code \in Failures) => cache' = cache
    /\ (inflight' # inflight /\ ~Answered /\ BagCardinality(inflight') >= BagCardinality(inflight))
           => cache' = cache

C9_FailureLeavesCache == [][C9_Step]_vars

\* an oversized file was refused while another path's entry stayed cached
C9_Witness ==
    /\ done.code = "TooLarge"
    /\ cache[done.path] = {}
    /\ \E p \in DocPaths : cache[p] # {}

\* C10: at every moment each path has no entry or one whole entry, and an
\* entry changes only when a read of that path completes, to the content
\* that read returned and the time it completed.
C10_EntryWhole ==
    \A p \in DocPaths :
        /\ Cardinality(cache[p]) <= 1
        /\ \A e \in cache[p] : e.content \in Contents /\ e.lastModified \in 0..now

C10_Step ==
    \A p \in DocPaths :
        cache'[p] # cache[p]
            => /\ Answered /\ done'.code = "ok" /\ done'.read /\ done'.path = p
               /\ cache'[p] = {[content |-> done'.content, lastModified |-> now]}

C10_NoPartialEntry == []C10_EntryWhole /\ [][C10_Step]_vars

\* two calls for one path are suspended at once, one of them in its read,
\* while the path already has an entry
C10_Witness ==
    \E r1, r2 \in BagToSet(inflight) :
        /\ r1 # r2 \/ CopiesIn(r1, inflight) >= 2
        /\ r1.path = r2.path /\ r1.stage = "read"
        /\ cache[r1.path] # {}

(***************************************************************************)
(* Properties of searchInContent (SpecSearch).                             *)
(***************************************************************************)
\* the indices (from 0) of the lines that contain the query q, case-insensitively
MatchingLines(lines, q) ==
    LET ql == toLowerCase(q)
    IN  {i \in 0..(Len(lines) - 1) : includes(toLowerCase(lines[i + 1]), ql)}

\* lines max(0, i-3) through min(lastLine, i+3), joined with newlines
WindowLow(i) == IF i - 3 > 0 THEN i - 3 ELSE 0
WindowHigh(lines, i) == IF i + 3 < Len(lines) - 1 THEN i + 3 ELSE Len(lines) - 1
WindowText(lines, i) ==
    joinWith([j \in 1..(WindowHigh(lines, i) - WindowLow(i) + 1) |-> lines[WindowLow(i) + j]], NL)

\* C12 as stated: the excerpt emitted for a match at line i is exactly the
\* lines max(0, i-3) through min(lastLine, i+3), in order, joined with newlines.
C12_ExcerptIsWindow ==
    search.called =>
        LET lines == split(search.content, NL) IN
        \A k \in 1..Len(search.results) :
            search.results[k] = WindowText(lines, search.found[k].at)

\* C12: the excerpt emitted for a match at line i is the lines max(0, i-3)
\* through min(lastLine, i+3), in order, joined with newlines, between a line
\* of three backticks before and a line of three backticks after.
C12_ExcerptIsFencedWindow ==
    search.called =>
        LET lines == split(search.content, NL)
            matching == MatchingLines(lines, search.query)
        IN  /\ Len(search.results) = Len(search.found)
            /\ \A k \in 1..Len(search.results) :
                   /\ search.found[k].at \in matching
                   /\ search.results[k] =
                          <<BACKTICK, BACKTICK, BACKTICK, NL>>
                              \o WindowText(lines, search.found[k].at)
                              \o <<NL, BACKTICK, BACKTICK, BACKTICK>>

\* two excerpts, the first clipped at line 0 and the second at the last line
C12_Witness ==
    /\ search.called /\ Len(search.found) = 2
    /\ search.found[1].at < 3 /\ search.found[2].at > 3
    /\ LET lastLine == Len(split(search.content, NL)) - 1 IN
       search.found[2].at + 3 > lastLine /\ lastLine >= 6

\* C13: for every limit the search operation accepts, searchInContent
\* returns at most limit excerpts, and fewer than limit only when the scan
\* has reached the end of the content.
C13_AtMostLimit ==
    search.called =>
        /\ Len(search.results) * search.limit.den <= search.limit.num
        /\ Len(search.results) * search.limit.den < search.limit.num
               => search.i >= Len(split(search.content, NL))

\* no two lines of M are within 3 lines of each other
Separated(M) == \A a, b \in M : a < b => b - a > 3

\* C14 as stated: a query occurring on k lines, k < limit, yields exactly k
\* excerpts; a query occurring on no line yields the empty sequence.
C14_ExactlyK ==
    search.called =>
        LET k == Cardinality(MatchingLines(split(search.content, NL), search.query)) IN
        k * search.limit.den < search.limit.num => Len(search.results) = k

\* C14: a query occurring on k lines, k < limit, yields exactly k excerpts
\* when no two of those lines are within 3 lines of each other, and otherwise
\* fewer than k but at least k/4; a query occurring on no line yields the
\* empty sequence.
C14_ExactlyKWhenSeparated ==
    search.called =>
        LET matching == MatchingLines(split(search.content, NL), search.query)
            k == Cardinality(matching)
        IN  k * search.limit.den < search.limit.num =>
                /\ Separated(matching) => Len(search.results) = k
                /\ ~Separated(matching)
                       => (Len(search.results) < k /\ 4 * Len(search.results) >= k)
                /\ k = 0 => search.results = <<>>

\* three lines contain the query, fewer than the limit, and two excerpts come back
C14_Witness ==
    /\ search.called
    /\ search.limit.num > 3 * search.limit.den
    /\ Len(search.results) = 2
    /\ Cardinality(MatchingLines(split(search.content, NL), search.query)) = 3

\* C15: the line windows of two excerpts of one call share no line, and no
\* excerpt is emitted for a line inside the window of an earlier excerpt.
C15_ExcerptsDisjoint ==
    search.called =>
        \A j, k \in 1..Len(search.found) :
            j < k => /\ search.found[j].end <= search.found[k].start
                     /\ search.found[k].at >= search.found[j].end

(***************************************************************************)
(* Properties of calculateRecommendations (SpecReco).                      *)
(***************************************************************************)
\* the criterion is set (supplied and not empty) and in the profile's field
SetAndIn(value, field) == \E x \in value : x # "" /\ \E arr \in field : x \in arr

\* the requested features, and how many of the entries are in the profile
Requested(criteria) == IF criteria.features = {} THEN <<>> ELSE TheOne(criteria.features)
InProfileCount(criteria, profile) ==
    Cardinality({i \in DOMAIN Requested(criteria) :
                    \E arr \in profile.features : Requested(criteria)[i] \in arr})

Ind(b) == IF b THEN 1 ELSE 0

\* the weights of the dimensions other than features
WholePart(criteria, profile) ==
    40 * Ind(SetAndIn(criteria.purpose, profile.purpose))
    + 20 * Ind(SetAndIn(criteria.animations, profile.animations))
    + 15 * Ind(SetAndIn(criteria.colorPreference, profile.colorPreference))
    + 10 * Ind(SetAndIn(criteria.complexity, profile.complexity))

\* round(whole + 15 * matched / requested), halves rounded upwards
ExpectedScore(criteria, profile) ==
    LET n == Len(Requested(criteria))
        m == InProfileCount(criteria, profile)
    IN  IF n = 0 THEN WholePart(criteria, profile)
        ELSE WholePart(criteria, profile) + ((30 * m + n) \div (2 * n))

HasProfile(kit) == kit.id \in DOMAIN reco.data.matching
ProfileOf(kit) == reco.data.matching[kit.id]
KitsOf(data) == {data.starterKits[k] : k \in DOMAIN data.starterKits}

\* |criteria.features \cap profile.features| and |criteria.features|, the
\* features taken as sets
RequestedSet(criteria) == {Requested(criteria)[i] : i \in DOMAIN Requested(criteria)}
InProfileSet(criteria, profile) ==
    {f \in RequestedSet(criteria) : \E arr \in profile.features : f \in arr}

\* round(whole + 15 * |features \cap profile.features| / |features|), halves
\* rounded upwards
ExpectedScoreOfSets(criteria, profile) ==
    LET n == Cardinality(RequestedSet(criteria))
        m == Cardinality(InProfileSet(criteria, profile))
    IN  IF n = 0 THEN WholePart(criteria, profile)
        ELSE WholePart(criteria, profile) + ((30 * m + n) \div (2 * n))

\* C16 as stated: every result is for a record that has a profile and carries
\* the score round(40*[purpose] + 20*[animations] + 15*[colorPreference]
\* + 15*|criteria.features \cap profile.features| / |criteria.features|
\* + 10*[complexity]); records without a profile are not in the result.
C16_ScoreFormulaOfSets ==
    reco.called =>
        \A k \in DOMAIN reco.result :
            /\ reco.result[k].kit \in KitsOf(reco.data)
            /\ HasProfile(reco.result[k].kit)
            /\ reco.result[k].score
                   = ExpectedScoreOfSets(reco.criteria, ProfileOf(reco.result[k].kit))

\* C16 amended: every result is for a record that has a profile and carries
\* the score round(40*[purpose] + 20*[animations] + 15*[colorPreference]
\* + 15*matched/requested + 10*[complexity]), requested being the number of
\* entries of criteria.features and matched the number of those entries that
\* are in profile.features, a repeated entry counted each time; every record
\* with a profile whose score so computed is at least 1 is in the result;
\* records without a profile are not.
C16_ScoreFormula ==
    reco.called =>
        /\ \A k \in DOMAIN reco.result :
               /\ reco.result[k].kit \in KitsOf(reco.data)
               /\ HasProfile(reco.result[k].kit)
               /\ reco.result[k].score
                      = ExpectedScore(reco.criteria, ProfileOf(reco.result[k].kit))
        /\ \A kit \in KitsOf(reco.data) :
               (HasProfile(kit) /\ ExpectedScore(reco.criteria, ProfileOf(kit)) >= 1)
                   => \E k \in DOMAIN reco.result : reco.result[k].kit = kit

\* a feature list with a repeated entry gave a result with a feature part of
\* 7.5 rounded up to 8, which is not the score the set cardinalities give,
\* next to a record without a profile
C16_Witness ==
    /\ reco.called
    /\ \E k \in DOMAIN reco.result :
           LET n == Len(Requested(reco.criteria))
               m == InProfileCount(reco.criteria, ProfileOf(reco.result[k].kit))
           IN  /\ n > 0 /\ (30 * m) % (2 * n) = n
               /\ reco.result[k].score
                      # ExpectedScoreOfSets(reco.criteria, ProfileOf(reco.result[k].kit))
    /\ \E kit \in KitsOf(reco.data) : ~HasProfile(kit)

\* C17: every returned result has a score of at least 1, whatever the
\* length of the feature list.
C17_NoZeroScore ==
    reco.called => \A k \in DOMAIN reco.result : reco.result[k].score >= 1

\* the position of a record in the input starterKits array
PositionOf(kit) == CHOOSE k \in DOMAIN reco.data.starterKits : reco.data.starterKits[k] = kit

\* C18: the result is sorted by score in non-increasing order, and results
\* of equal score are in the order of their records in starterKits.
C18_SortedStable ==
    reco.called =>
        \A i, j \in DOMAIN reco.result :
            i < j => /\ reco.result[i].score >= reco.result[j].score
                     /\ reco.result[i].score = reco.result[j].score
                            => PositionOf(reco.result[i].kit) < PositionOf(reco.result[j].kit)

\* three results: a tie, and a record moved in front of records that precede
\* it in the input
C18_Witness ==
    /\ reco.called /\ Len(reco.result) = 3
    /\ \E i, j \in DOMAIN reco.result : i < j /\ reco.result[i].score = reco.result[j].score
    /\ \E i, j \in DOMAIN reco.result :
           i < j /\ PositionOf(reco.result[i].kit) > PositionOf(reco.result[j].kit)

\* the criteria of the scorer example: purpose, colour preference, two
\* features and complexity supplied, animations not; and a profile that has
\* the purpose, the colour preference, both features and the complexity
ExampleCriteria(criteria) ==
    /\ Truthy(criteria.purpose) /\ Truthy(criteria.colorPreference)
    /\ Truthy(criteria.complexity) /\ criteria.animations = {}
    /\ Len(Requested(criteria)) = 2
MatchesAllFour(criteria, profile) ==
    /\ SetAndIn(criteria.purpose, profile.purpose)
    /\ SetAndIn(criteria.colorPreference, profile.colorPreference)
    /\ SetAndIn(criteria.complexity, profile.complexity)
    /\ InProfileCount(criteria, profile) = 2

\* the result for a record, as a set of at most one element
ResultFor(kit) == {reco.result[k] : k \in {j \in DOMAIN reco.result : reco.result[j].kit = kit}}

\* C19 as stated: the example criteria against a profile matching all four
\* dimensions yield score 100 with exactly four reasons.
C19_ExampleScores100 ==
    (reco.called /\ ExampleCriteria(reco.criteria)) =>
        \A kit \in KitsOf(reco.data) :
            (HasProfile(kit) /\ MatchesAllFour(reco.criteria, ProfileOf(kit)))
                => \E r \in ResultFor(kit) : r.score = 100 /\ Len(r.reasons) = 4

\* C19: the example criteria against a profile matching all four dimensions
\* yield score 80 (40 + 15 + 15 + 10) with exactly four reasons.
C19_ExampleScores80 ==
    (reco.called /\ ExampleCriteria(reco.criteria)) =>
        \A kit \in KitsOf(reco.data) :
            (HasProfile(kit) /\ MatchesAllFour(reco.criteria, ProfileOf(kit)))
                => /\ ResultFor(kit) # {}
                   /\ \A r \in ResultFor(kit) : r.score = 80 /\ Len(r.reasons) = 4

\* the example was scored against a profile matching all four dimensions
C19_Witness ==
    /\ reco.called /\ ExampleCriteria(reco.criteria)
    /\ \E kit \in KitsOf(reco.data) :
           HasProfile(kit) /\ MatchesAllFour(reco.criteria, ProfileOf(kit))
               /\ ResultFor(kit) # {}

\* the criteria match no dimension of the profile
MatchesNothing(criteria, profile) ==
    /\ ~SetAndIn(criteria.purpose, profile.purpose)
    /\ ~SetAndIn(criteria.colorPreference, profile.colorPreference)
    /\ ~SetAndIn(criteria.animations, profile.animations)
    /\ ~SetAndIn(criteria.complexity, profile.complexity)
    /\ InProfileCount(criteria, profile) = 0

\* C20: when the criteria match no dimension of any profile (in particular
\* when no criteria are supplied), the result is the empty sequence.
C20_NoMatchEmpty ==
    (reco.called /\ \A kit \in KitsOf(reco.data) :
                        HasProfile(kit) => MatchesNothing(reco.criteria, ProfileOf(kit)))
        => reco.result = <<>>

\* a purpose and a feature were supplied, no profile has either, and the
\* result is empty
C20_Witness ==
    /\ reco.called /\ reco.result = <<>>
    /\ Truthy(reco.criteria.purpose) /\ Len(Requested(reco.criteria)) > 0
    /\ \E kit \in KitsOf(reco.data) : HasProfile(kit)

\* C28: in one searchInContent call the lines excerpts are centred on are
\* strictly increasing and consecutive ones are at least 4 lines apart; the
\* first excerpt is centred on the lowest-index line that contains the query
\* case-insensitively, and every excerpt is centred on a line that contains it.
C28_CentresAscendingApart ==
    search.called =>
        LET lines == split(search.content, NL)
            matching == MatchingLines(lines, search.query)
        IN  /\ \A k \in 1..Len(search.found) : search.found[k].at \in matching
            /\ \A k \in 1..(Len(search.found) - 1) :
                   search.found[k + 1].at - search.found[k].at >= 4
            /\ Len(search.found) >= 1 =>
                   \A m \in matching : search.found[1].at <= m
            /\ matching # {} => Len(search.found) >= 1

\* two excerpts centred exactly 4 lines apart, the first not on line 0, with
\* a line that contains the query between them
C28_Witness ==
    /\ search.called /\ Len(search.found) = 2
    /\ search.found[1].at > 0
    /\ search.found[2].at - search.found[1].at = 4
    /\ \E m \in MatchingLines(split(search.content, NL), search.query) :
           search.found[1].at < m /\ m < search.found[2].at

\* the reasons of a result that name a number of requested features
FeatureReasons(rec) ==
    {rec.reasons[k] : k \in {j \in DOMAIN rec.reasons :
        rec.reasons[j].text = "Includes ${matchedFeatures.length} of your requested features"}}

\* C26 as stated: whenever criteria.features is non-empty, every returned
\* record (it has a profile) carries a reason naming the number of requested
\* features matched, whatever that number is.
C26_FeatureReasonAlways ==
    (reco.called /\ Len(Requested(reco.criteria)) > 0) =>
        \A k \in DOMAIN reco.result :
            FeatureReasons(reco.result[k])
                = {Reason("Includes ${matchedFeatures.length} of your requested features",
                          ToString(InProfileCount(reco.criteria, ProfileOf(reco.result[k].kit))))}

\* C26 amended: a record with a profile of which at least one requested
\* feature (counting the entries of criteria.features) is in the profile's
\* features is returned with exactly one reason naming that number; a
\* returned record none of whose requested features matched, or returned
\* when no feature was requested, carries no such reason.
C26_FeatureReasonWhenMatched ==
    reco.called =>
        /\ \A k \in DOMAIN reco.result :
               LET m == InProfileCount(reco.criteria, ProfileOf(reco.result[k].kit)) IN
               /\ FeatureReasons(reco.result[k])
                      = IF m > 0
                        THEN {Reason("Includes ${matchedFeatures.length} of your requested features",
                                     ToString(m))}
                        ELSE {}
               /\ Cardinality({j \in DOMAIN reco.result[k].reasons :
                                   reco.result[k].reasons[j] \in FeatureReasons(reco.result[k])})
                      = Ind(m > 0)
        /\ \A kit \in KitsOf(reco.data) :
               (HasProfile(kit) /\ InProfileCount(reco.criteria, ProfileOf(kit)) > 0)
                   => \E k \in DOMAIN reco.result : reco.result[k].kit = kit

\* two features were requested; one result matched one of them and says
\* so, another matched none and has no reason about features
C26_Witness ==
    /\ reco.called /\ Len(Requested(reco.criteria)) = 2
    /\ \E k \in DOMAIN reco.result :
           \E r \in FeatureReasons(reco.result[k]) : r.value = "1"
    /\ \E k \in DOMAIN reco.result : FeatureReasons(reco.result[k]) = {}

\* C27: every score calculateRecommendations returns is an integer between
\* 0 and 100 inclusive, also for feature lists with repeated entries.
C27_ScoreInRange ==
    reco.called => \A k \in DOMAIN reco.result : reco.result[k].score \in 0..100

\* a feature list with a repeated entry and a result that scores 100
C27_Witness ==
    /\ reco.called
    /\ Len(Requested(reco.criteria)) = 2
    /\ Requested(reco.criteria)[1] = Requested(reco.criteria)[2]
    /\ \E k \in DOMAIN reco.result : reco.result[k].score = 100

\* the dimensions that added a positive amount to the score of a record
\* with this profile
Contributing(criteria, profile) ==
    Ind(SetAndIn(criteria.purpose, profile.purpose))
    + Ind(SetAndIn(criteria.colorPreference, profile.colorPreference))
    + Ind(SetAndIn(criteria.animations, profile.animations))
    + Ind(InProfileCount(criteria, profile) > 0)
    + Ind(SetAndIn(criteria.complexity, profile.complexity))

\* C29: every result has at least one reason, no input record is in the
\* result twice, and a result has as many reasons as dimensions (purpose,
\* colour, animations, features, complexity) added a positive amount to
\* its score.
C29_ReasonsPerDimension ==
    reco.called =>
        /\ \A k \in DOMAIN reco.result :
               /\ Len(reco.result[k].reasons) >= 1
               /\ Len(reco.result[k].reasons)
                      = Contributing(reco.criteria, ProfileOf(reco.result[k].kit))
        /\ \A i, j \in DOMAIN reco.result :
               reco.result[i].kit = reco.result[j].kit => i = j

\* three results, one with a reason for each of the five dimensions and
\* one with a single reason
C29_Witness ==
    /\ reco.called /\ Len(reco.result) = 3
    /\ \E k \in DOMAIN reco.result : Len(reco.result[k].reasons) = 5
    /\ \E k \in DOMAIN reco.result : Len(reco.result[k].reasons) = 1

(***************************************************************************)
(* Error mapping of the fetch-by-identifier handlers (SpecFetch).          *)
(***************************************************************************)
FetchByIdTools == {"get_catalyst_component", "get_pattern", "get_library_docs"}

\* C22: in get_catalyst_component, get_pattern and get_library_docs a read
\* that fails with ENOENT is answered with an InvalidRequest error whose
\* message names the identifier asked for and the companion list operation;
\* an error thrown by validation reaches the caller unchanged (its code,
\* message and detail, and nothing was read); every other failure of the
\* read is answered with an InternalError carrying only the safe message.
C22_ErrorMapping ==
    (last.tool \in FetchByIdTools /\ last.msg # "inputSchema") =>
        LET thrown == validateToolInput(last.tool, FetchArgs(last.tool, last.id, last.category)) IN
        /\ last.fs = "ENOENT" =>
               /\ last.code = "InvalidRequest"
               /\ last.msg = NotFoundMsg(last.tool)
               /\ last.names = last.id.str
        /\ thrown.thrown =>
               /\ last.fs = "none" /\ last.reads = {}
               /\ last.code = thrown.code /\ last.code = "InvalidParams"
               /\ last.msg = thrown.msg /\ last.detail = thrown.detail
        /\ last.fs \notin {"none", "content", "ENOENT"} =>
               /\ last.code = "InternalError"
               /\ last.msg = "ErrorHandler.formatSafeErrorMessage"
               /\ last.names = <<>> /\ last.detail = ""
        /\ last.fs = "content" => last.code = "ok"

\* a library that does not exist was asked for and the answer is the
\* not-found error
C22_Witness ==
    /\ last.tool = "get_library_docs" /\ last.fs = "ENOENT"
    /\ last.code = "InvalidRequest" /\ last.names = <<"a", "-", "a">>

(***************************************************************************)
(* Properties of the search handlers (SpecSearchArgs).                     *)
(***************************************************************************)
\* query is a string of 2 to 100 characters with no control characters
\* (U+0000..U+001F and U+007F)
QueryAcceptable(q) ==
    /\ q.type = "string" /\ Len(q.str) >= 2 /\ Len(q.str) <= 100
    /\ \A k \in 1..Len(q.str) : q.str[k] \notin ControlClass

\* limit is absent or an integer between 1 and 20
LimitAcceptable(l) ==
    \/ l.type = "undefined"
    \/ l.type = "number" /\ l.den = 1 /\ l.num >= 1 /\ l.num <= 20

\* C21: a search request is accepted (its document is read) exactly when the
\* query is a string of 2 to 100 characters without control characters and
\* the limit is absent (5 is then used) or an integer between 1 and 20;
\* every other request gets an invalid-parameters error and reads nothing.
C21_AcceptedExactlyWhenValid ==
    last.tool \in SearchTools =>
        IF QueryAcceptable(last.query) /\ LimitAcceptable(last.limit)
        THEN /\ last.code # "InvalidParams" /\ last.reads # {}
             /\ (last.code = "ok" /\ last.limit.type = "undefined") => last.used = {Num(5, 1)}
        ELSE last.code = "InvalidParams" /\ last.reads = {}

(***************************************************************************)
(* Frame of a request whose validation throws (SpecSearchOp).              *)
(***************************************************************************)
\* C24: a search, component or pattern request whose validateToolInput call
\* throws hands no path to fs.readFile, does not call readFullDocsFile (no
\* cache access, and no call left suspended that could read or store
\* later), and leaves the cache as it was before the request.
C24_ThrowTouchesNothing ==
    [][(last'.flip # last.flip /\ last'.outcome = "threw") =>
           /\ last'.reads = {}
           /\ ~last'.cacheAccess
           /\ cache' = cache
           /\ inflight' = inflight
           /\ done' = NoAnswer]_vars

\* a search with a control character in its query was refused while the
\* document it would search is cached and another read is under way
C24_Witness ==
    /\ last.tool = "search_nextjs_docs" /\ last.outcome = "threw"
    /\ cache[nextjsDocsPath] # {}
    /\ inflight # EmptyBag

(***************************************************************************)
(* Properties of the recommendation tools (SpecRecoOp).                    *)
(***************************************************************************)
\* the answers hold the values of the criteria, each with its type
SameValues == reco.answers \in {AnswersOf(reco.criteria, {}), AnswersOf(reco.criteria, {"budget"})}

\* resp outputs the first min(3, n) of its n scored results, in their order
OutputsTopThree(resp) ==
    LET ranked == resp.recommendations
        n == Len(ranked)
        out == resp.output
    IN  /\ Len(out) = IF n < 3 THEN n ELSE 3
        /\ \A k \in 1..Len(out) :
               /\ out[k].id = ranked[k].kit.id
               /\ out[k].score = ranked[k].score
               /\ out[k].reasons = ranked[k].reasons
        /\ \A j \in (Len(out) + 1)..n, k \in 1..Len(out) : ranked[j].score <= out[k].score
        /\ \A j \in 1..(n - 1) : ranked[j].score >= ranked[j + 1].score

\* C25: recommend_template and answer_questionnaire output min(3, n)
\* recommendations, n being the number of scored results: the first three
\* elements of the ranked sequence, in rank order, so that no omitted record
\* has a higher score than an output one.
C25_TopThree ==
    /\ reco.recommend.code = "ok" =>
           /\ reco.recommend.recommendations = calculateRecommendations(reco.data, reco.criteria)
           /\ OutputsTopThree(reco.recommend)
    /\ reco.questionnaire.code = "ok" =>
           /\ SameValues =>
                  reco.questionnaire.recommendations
                      = calculateRecommendations(reco.data, reco.criteria)
           /\ OutputsTopThree(reco.questionnaire)

\* four records were scored, three are output and the fourth scores less
\* than the third
C25_Witness ==
    /\ reco.questionnaire.code = "ok"
    /\ Len(reco.questionnaire.recommendations) = 4
    /\ Len(reco.questionnaire.output) = 3
    /\ reco.questionnaire.recommendations[4].score < reco.questionnaire.output[3].score

\* C30: for the same template data, answer_questionnaire with answers
\* holding purpose, colorPreference, animations, features and complexity
\* ranks and scores the records as recommend_template does with those
\* values as criteria: same records, same scores, same order, same reasons.
C30_SameRanking ==
    (SameValues /\ reco.recommend.code = "ok" /\ reco.questionnaire.code = "ok") =>
        /\ reco.questionnaire.recommendations = reco.recommend.recommendations
        /\ reco.questionnaire.output = reco.recommend.output

\* both tools answered, the answers hold all five values and a key that is
\* no criterion, and a record is recommended for its complexity
C30_Witness ==
    /\ SameValues
    /\ reco.recommend.code = "ok" /\ reco.questionnaire.code = "ok"
    /\ DOMAIN reco.answers = CriteriaKeys \cup {"budget"}
    /\ Len(reco.questionnaire.recommendations) >= 2
    /\ \E k \in 1..Len(reco.questionnaire.recommendations[1].reasons) :
           reco.questionnaire.recommendations[1].reasons[k].value = "advanced"

====
